---- MODULE Spec2Model ----
(***************************************************************************)
(* A model of the log parsing and reconciliation engine of the voltage     *)
(* analyzer (src/index.tsx): the bracket-aware JSON extractor, the status  *)
(* evaluator, parseLogFile and the aggregate statistics of App.            *)
(*                                                                         *)
(* Conventions.                                                            *)
(*  - An optional value (null / undefined in the source) is a sequence:    *)
(*    <<>> when absent, <<v>> when present.                                *)
(*  - Times are milliseconds counted from 2015-01-01T00:00:00Z, so that    *)
(*    MIN_REASONABLE_TS is 0; the source only compares, subtracts and      *)
(*    rounds times to whole seconds, and the origin is a whole second.     *)
(*  - Voltages are whole volts.                                            *)
(***************************************************************************)
EXTENDS Integers, Sequences, FiniteSets, TLC

VARIABLES
  \* evaluateStatus harness: the triplet handed in, the thresholds, the result
  evT, evVmin, evVmax, evOut, evPc,
  \* extractJsonFrom: arguments, locals of the loop, position, return value
  text, start, i, j, depth, inStr, esc, xpc, ret,
  \* App: the files state, the thresholds of settings, the memoized allData and
  \* analysisStats, and whether the memos have been computed for this state
  files, settings, allData, analysisStats, appPc,
  \* the handler of the App that ran last, and settings.timezone
  appLast, timezone,
  \* runs of parseLogFile: the log text, the wall clock at the run, the outcome;
  \* the clock and the outcome of a second run on the same text
  fileText, now, parsed, now2, parsed2, parsePc,
  \* the cursor loops over a marker: the text, the marker, the cursor (j of scan,
  \* idx of the MeterValues loop), the offsets handed to extractJsonFrom
  scText, scMarker, scJ, scVisited, scPc,
  \* device metadata of a parse: the messages of the log, the raw-text match of
  \* the fallback, bootInfo, the scan under way and its cursor
  mdLog, mdRaw, bootInfo, mdStage, mdPos,
  \* uploads under way: the batches whose timer callback has not ended, each with
  \* its results so far, and the isLoading flag
  pending, isLoading

evVars == <<evT, evVmin, evVmax, evOut, evPc>>
xVars == <<text, start, i, j, depth, inStr, esc, xpc, ret>>
appVars == <<files, settings, allData, analysisStats, appPc, appLast, timezone>>
parseVars == <<fileText, now, parsed, now2, parsed2, parsePc>>
scanVars == <<scText, scMarker, scJ, scVisited, scPc>>
metaVars == <<mdLog, mdRaw, bootInfo, mdStage, mdPos>>
batchVars == <<pending, isLoading>>
vars == <<evVars, xVars, appVars, parseVars, scanVars, metaVars, batchVars>>

Absent == <<>>
Some(v) == <<v>>
IsPresent(o) == o # <<>>
Val(o) == o[1]

Min2(a, b) == IF a <= b THEN a ELSE b
Max2(a, b) == IF a >= b THEN a ELSE b

RECURSIVE SeqMin(_)
SeqMin(s) == IF Len(s) = 1 THEN s[1] ELSE Min2(s[1], SeqMin(Tail(s)))
RECURSIVE SeqMax(_)
SeqMax(s) == IF Len(s) = 1 THEN s[1] ELSE Max2(s[1], SeqMax(Tail(s)))

RECURSIVE FilterPresent(_)
FilterPresent(s) ==
  IF s = <<>> THEN <<>>
  ELSE (IF IsPresent(Head(s)) THEN <<Val(Head(s))>> ELSE <<>>) \o FilterPresent(Tail(s))

\* the sequence f with its elements enumerated
AsSeq(f) == SubSeq(f, 1, Len(f))

\* where the stable sort by ts puts the element at index k: after the elements of
\* a smaller ts and the earlier elements of the same ts
PlaceByTs(s, k) ==
  1 + Cardinality({q \in 1..Len(s) : s[q].ts < s[k].ts \/ (s[q].ts = s[k].ts /\ q < k)})

IsSortedByTs(s) == \A k \in 1..(Len(s) - 1) : s[k].ts <= s[k + 1].ts

\* arr.sort((a, b) => a.ts - b.ts), a stable sort
SortByTs(s) ==
  LET a == AsSeq(s)
  IN IF IsSortedByTs(a) THEN a
     ELSE LET place == AsSeq([k \in 1..Len(a) |-> PlaceByTs(a, k)])
          IN AsSeq([r \in 1..Len(a) |-> a[CHOOSE k \in 1..Len(a) : place[k] = r]])

(***************************************************************************)
(* evaluateStatus (src/index.tsx:97-120)                                   *)
(***************************************************************************)
\* [t.L1, t.L2, t.L3].filter(v => v !== null)
PresentVals(t) == FilterPresent(<<t.L1, t.L2, t.L3>>)

IMBALANCE_DELTA == 15

\* the text pushed for an imbalance: `Δ ${t.delta.toFixed(0)}V` (delta is whole volts)
DeltaText(d) == [tag |-> "Delta", v |-> d]
HighText == [tag |-> "High", v |-> 0]
LowText == [tag |-> "Low", v |-> 0]

\* mutant: under outranks over (the guard status !== 'over' dropped)
evaluateStatus_UnderWins(t, vmin, vmax) ==
  LET vals == PresentVals(t)
      over == \E k \in 1..Len(vals) : vals[k] > vmax
      under == \E k \in 1..Len(vals) : vals[k] < vmin
      imb == t.delta >= IMBALANCE_DELTA
  IN IF Len(vals) = 0 THEN [status |-> "ok", deviationDetails |-> <<>>]
     ELSE [status |-> IF under THEN "under" ELSE IF over THEN "over"
                      ELSE IF imb THEN "imbalance" ELSE "ok",
           deviationDetails |-> (IF over THEN <<HighText>> ELSE <<>>)
                             \o (IF under THEN <<LowText>> ELSE <<>>)
                             \o (IF imb THEN <<DeltaText(t.delta)>> ELSE <<>>)]

\* mutant: status starts from the status the triplet carries, not from 'ok'
evaluateStatus_Sticky(t, vmin, vmax) ==
  LET vals == PresentVals(t)
      over == \E k \in 1..Len(vals) : vals[k] > vmax
      under == \E k \in 1..Len(vals) : vals[k] < vmin
      imb == t.delta >= IMBALANCE_DELTA
      s1 == IF over THEN "over" ELSE t.status
      s2 == IF under /\ s1 # "over" THEN "under" ELSE s1
      s3 == IF imb /\ s2 = "ok" THEN "imbalance" ELSE s2
  IN IF Len(vals) > 0
     THEN [status |-> s3,
           deviationDetails |-> (IF over THEN <<HighText>> ELSE <<>>)
                             \o (IF under THEN <<LowText>> ELSE <<>>)
                             \o (IF imb THEN <<DeltaText(t.delta)>> ELSE <<>>)]
     ELSE [status |-> t.status, deviationDetails |-> <<>>]

evaluateStatus(t, vmin, vmax) ==
  LET vals == PresentVals(t)
      over == \E k \in 1..Len(vals) : vals[k] > vmax
      under == \E k \in 1..Len(vals) : vals[k] < vmin
      s1 == IF over THEN "over" ELSE "ok"
      d1 == IF over THEN <<HighText>> ELSE <<>>
      s2 == IF under /\ s1 # "over" THEN "under" ELSE s1
      d2 == IF under THEN d1 \o <<LowText>> ELSE d1
      imb == t.delta >= IMBALANCE_DELTA
      s3 == IF imb /\ s2 = "ok" THEN "imbalance" ELSE s2
      d3 == IF imb THEN d2 \o <<DeltaText(t.delta)>> ELSE d2
  IN IF Len(vals) > 0
     THEN [status |-> s3, deviationDetails |-> d3]
     ELSE [status |-> "ok", deviationDetails |-> <<>>]

\* --- harness: one call of evaluateStatus on any triplet and thresholds
EvVolts == {189, 200, 206, 207, 225, 230, 240, 253, 254, 260}
EvPhase == {Absent} \cup {Some(v) : v \in EvVolts}
EvDeltas == {0, 14, 15, 16, 35}
EvThresholds == {<<207, 253>>, <<200, 240>>}

EvIdle ==
  /\ evT = [L1 |-> Absent, L2 |-> Absent, L3 |-> Absent, delta |-> 0]
  /\ evVmin = 207 /\ evVmax = 253
  /\ evOut = [status |-> "ok", deviationDetails |-> <<>>]
  /\ evPc = "off"

XIdle ==
  /\ text = <<>> /\ start = 0 /\ i = 0 /\ j = 0 /\ depth = 0
  /\ inStr = FALSE /\ esc = FALSE /\ xpc = "off"
  /\ ret = [kind |-> "none", from |-> 0, to |-> 0]

\* no file has been uploaded: useState([]) and the default settings (680-685)
AppIdle ==
  /\ files = <<>> /\ settings = [vmin |-> 207, vmax |-> 253]
  /\ allData = <<>> /\ analysisStats = <<>> /\ appPc = "off" /\ appLast = "none"
  /\ timezone = "Europe/Kyiv"

ParseIdle ==
  /\ fileText = <<>> /\ now = 0 /\ now2 = 0
  /\ parsed = <<>> /\ parsed2 = <<>>
  /\ parsePc = "off"

ScanIdle ==
  /\ scText = <<>> /\ scMarker = <<>> /\ scJ = 0 /\ scVisited = <<>> /\ scPc = "off"

\* const bootInfo = {} (line 129)
NoBootInfo == [chargePointVendor |-> <<>>, chargePointModel |-> <<>>, firmwareVersion |-> <<>>]
MetaIdle ==
  /\ mdLog = <<>> /\ mdRaw = <<>> /\ bootInfo = NoBootInfo /\ mdStage = "off" /\ mdPos = 0

\* useState(false) for isLoading; no upload under way
BatchIdle == pending = <<>> /\ isLoading = FALSE

InitEval ==
  /\ evT \in [L1 : EvPhase, L2 : EvPhase, L3 : EvPhase, delta : EvDeltas]
  /\ \E th \in EvThresholds : evVmin = th[1] /\ evVmax = th[2]
  /\ evOut = [status |-> "ok", deviationDetails |-> <<>>]
  /\ evPc = "call"
  /\ XIdle /\ AppIdle /\ ParseIdle /\ ScanIdle /\ MetaIdle /\ BatchIdle

Evaluate ==
  /\ evPc = "call"
  /\ evOut' = evaluateStatus(evT, evVmin, evVmax)
  /\ evPc' = "returned"
  /\ UNCHANGED <<evT, evVmin, evVmax, xVars, appVars, parseVars, scanVars, metaVars, batchVars>>

NextEval == Evaluate
SpecEval == InitEval /\ [][NextEval]_vars

\* --- C2: precedence over > under > imbalance > ok; no phase gives ok and no deviation
AnyOver == \E v \in {evT.L1, evT.L2, evT.L3} : IsPresent(v) /\ Val(v) > evVmax
AnyUnder == \E v \in {evT.L1, evT.L2, evT.L3} : IsPresent(v) /\ Val(v) < evVmin
NoPhase == evT.L1 = Absent /\ evT.L2 = Absent /\ evT.L3 = Absent

\* C2: evaluateStatus returns 'over' if a present phase is above vmax, else 'under'
\* if one is below vmin, else 'imbalance' if delta >= 15, else 'ok'; with no present
\* phase it returns 'ok' and an empty deviation list whatever delta is.
C2_StatusPrecedence ==
  evPc = "returned" =>
    /\ NoPhase => evOut = [status |-> "ok", deviationDetails |-> <<>>]
    /\ ~NoPhase =>
         evOut.status = IF AnyOver THEN "over"
                        ELSE IF AnyUnder THEN "under"
                        ELSE IF evT.delta >= 15 THEN "imbalance"
                        ELSE "ok"
    /\ (evT.L1 = Some(260) /\ evT.L2 = Some(200) /\ evVmin = 207 /\ evVmax = 253)
         => evOut.status = "over"
    /\ (evT.L1 = Some(240) /\ evT.L2 = Some(225) /\ evT.L3 = Absent /\ evT.delta = 15
          /\ evVmin = 207 /\ evVmax = 253) => evOut.status = "imbalance"

\* a triplet over vmax and under vmin at once has been evaluated
C2_Witness ==
  /\ evPc = "returned"
  /\ evT.L1 = Some(260) /\ evT.L2 = Some(200) /\ evT.delta >= 15
  /\ evVmin = 207 /\ evVmax = 253
  /\ evOut.status = "over"

(***************************************************************************)
(* extractJsonFrom (src/index.tsx:42-71), one character per step.          *)
(* A text is a sequence of one-character strings; offsets are the source's *)
(* 0-based offsets, so text[k + 1] is the character at offset k.           *)
(***************************************************************************)
CharAt(s, k) == s[k + 1]

\* String.prototype.indexOf(ch, from): the least offset >= max(from, 0) holding ch, or -1
IndexOf(s, ch, from) ==
  LET lo == Max2(from, 0)
      hits == {k \in lo..(Len(s) - 1) : CharAt(s, k) = ch}
  IN IF hits = {} THEN -1 ELSE CHOOSE k \in hits : \A m \in hits : k <= m

\* text.slice(a, b + 1)
Slice(s, a, b) == [k \in 1..(b - a + 1) |-> s[a + k]]

\* JSON.parse on a span that starts with '{', for texts over the characters
\* { } " \ : , and the digit 1: the offset (1-based) after the value that starts
\* at p, or 0 when no value of the JSON grammar starts there.
RECURSIVE StrBody(_, _)
StrBody(s, p) ==
  IF p > Len(s) THEN 0
  ELSE IF s[p] = "\"" THEN p + 1
  ELSE IF s[p] = "\\"
       THEN IF p + 1 <= Len(s) /\ s[p + 1] \in {"\"", "\\"} THEN StrBody(s, p + 2) ELSE 0
  ELSE StrBody(s, p + 1)

StrEnd(s, p) == IF p <= Len(s) /\ s[p] = "\"" THEN StrBody(s, p + 1) ELSE 0

RECURSIVE NumEnd(_, _)
NumEnd(s, p) == IF p <= Len(s) /\ s[p] = "1" THEN NumEnd(s, p + 1) ELSE p

RECURSIVE ValEnd(_, _)
RECURSIVE MembersEnd(_, _)
MembersEnd(s, p) ==
  LET k == StrEnd(s, p)
      v == IF k # 0 /\ k <= Len(s) /\ s[k] = ":" THEN ValEnd(s, k + 1) ELSE 0
  IN IF v = 0 \/ v > Len(s) THEN 0
     ELSE IF s[v] = "}" THEN v + 1
     ELSE IF s[v] = "," THEN MembersEnd(s, v + 1)
     ELSE 0

ValEnd(s, p) ==
  IF p > Len(s) THEN 0
  ELSE IF s[p] = "\"" THEN StrEnd(s, p)
  ELSE IF s[p] = "1" THEN NumEnd(s, p)
  ELSE IF s[p] = "{"
       THEN IF p + 1 <= Len(s) /\ s[p + 1] = "}" THEN p + 2 ELSE MembersEnd(s, p + 1)
  ELSE 0

JsonParses(span) == ValEnd(span, 1) = Len(span) + 1

NoReturn == [kind |-> "none", from |-> 0, to |-> 0]
ReturnNull == [kind |-> "null", from |-> 0, to |-> 0]

\* mutant: the try/catch dropped, a span that does not parse raises
ParseSpan_NoCatch(s, a, b) ==
  IF JsonParses(Slice(s, a, b))
  THEN [kind |-> "object", from |-> a, to |-> b]
  ELSE [kind |-> "raised", from |-> a, to |-> b]

\* try { return JSON.parse(text.slice(i, j + 1)) } catch { return null }
ParseSpan(s, a, b) ==
  IF JsonParses(Slice(s, a, b))
  THEN [kind |-> "object", from |-> a, to |-> b]
  ELSE ReturnNull

\* const i = text.indexOf('{', start); if (i < 0) return null;
XFind ==
  /\ xpc = "call"
  /\ LET f == IndexOf(text, "{", start)
     IN /\ i' = f
        /\ IF f < 0
           THEN /\ ret' = ReturnNull /\ xpc' = "done" /\ j' = j
           ELSE /\ ret' = ret /\ xpc' = "loop" /\ j' = f
  /\ depth' = 0 /\ inStr' = FALSE /\ esc' = FALSE
  /\ UNCHANGED <<text, start, evVars, appVars, parseVars, scanVars, metaVars, batchVars>>

\* mutant: no escape tracking, every quote inside a string ends it
InStrStep_NoEscape(ch, in, e) ==
  IF ch = "\"" THEN [inStr |-> FALSE, esc |-> FALSE] ELSE [inStr |-> in, esc |-> FALSE]

\* the in-string branch of the loop body
InStrStep(ch, in, e) ==
  IF e THEN [inStr |-> in, esc |-> FALSE]
  ELSE IF ch = "\\" THEN [inStr |-> in, esc |-> TRUE]
  ELSE IF ch = "\"" THEN [inStr |-> FALSE, esc |-> e]
  ELSE [inStr |-> in, esc |-> e]

XScanInStr ==
  /\ xpc = "loop" /\ j < Len(text) /\ inStr
  /\ LET r == InStrStep(CharAt(text, j), inStr, esc)
     IN inStr' = r.inStr /\ esc' = r.esc
  /\ j' = j + 1
  /\ UNCHANGED <<text, start, i, depth, xpc, ret, evVars, appVars, parseVars, scanVars, metaVars, batchVars>>

\* outside a string: a quote opens one, '{' deepens, anything but '}' is skipped
XScanOpen ==
  /\ xpc = "loop" /\ j < Len(text) /\ ~inStr
  /\ CharAt(text, j) # "}"
  /\ inStr' = (CharAt(text, j) = "\"")
  /\ depth' = IF CharAt(text, j) = "{" THEN depth + 1 ELSE depth
  /\ j' = j + 1
  /\ UNCHANGED <<text, start, i, esc, xpc, ret, evVars, appVars, parseVars, scanVars, metaVars, batchVars>>

\* what a '}' outside a string does at depth d: the new depth, and whether it returns
CloseBrace(d) == [depth |-> d - 1, returns |-> (d - 1 = 0)]

XScanClose ==
  /\ xpc = "loop" /\ j < Len(text) /\ ~inStr
  /\ CharAt(text, j) = "}"
  /\ LET c == CloseBrace(depth)
     IN /\ depth' = c.depth
        /\ IF c.returns
           THEN /\ ret' = ParseSpan(text, i, j) /\ xpc' = "done" /\ j' = j
           ELSE /\ ret' = ret /\ xpc' = xpc /\ j' = j + 1
  /\ UNCHANGED <<text, start, i, inStr, esc, evVars, appVars, parseVars, scanVars, metaVars, batchVars>>

\* the loop ran off the end of the text: return null
XEnd ==
  /\ xpc = "loop" /\ j >= Len(text)
  /\ ret' = ReturnNull /\ xpc' = "done"
  /\ UNCHANGED <<text, start, i, j, depth, inStr, esc, evVars, appVars, parseVars, scanVars, metaVars, batchVars>>

\* --- harness: every text over the structural characters up to MaxTextLen, and some
\* longer texts with keys, values and separators
MaxTextLen == 6
MaxStart == 1
XChars == {"{", "}", "\"", "\\", "1"}
LongTexts ==
  { <<"1", "{", "\"", "1", "\"", ":", "\"", "1", "{", "1", "}", "1", "\"", "}", "1">>,
    <<"{", "\"", "1", "\"", ":", "{", "\"", "1", "\"", ":", "1", "1", "}", "}", "{", "}">>,
    <<"{", "\"", "1", "\"", ":", "1", ",", "\"", "\\", "\"", "}", "\"", ":", "\"", "\"", "}">>,
    <<"{", "\"", "\\", "1", "\"", ":", "1", "}">>,
    <<"{", "1", ":", "1", "}">>,
    <<"\"", "{", "\"", "{", "\"", "1", "\"", ":", "1", "}">> }
XTexts == (UNION {[1..n -> XChars] : n \in 0..MaxTextLen}) \cup LongTexts

InitX ==
  /\ text \in XTexts
  /\ start \in 0..MaxStart
  /\ i = 0 /\ j = 0 /\ depth = 0 /\ inStr = FALSE /\ esc = FALSE
  /\ xpc = "call" /\ ret = NoReturn
  /\ EvIdle /\ AppIdle /\ ParseIdle /\ ScanIdle /\ MetaIdle /\ BatchIdle

NextX == XFind \/ XScanInStr \/ XScanOpen \/ XScanClose \/ XEnd
SpecX == InitX /\ [][NextX]_vars

\* --- the span the contract describes, stated over offsets rather than loop state
\* the offset of the first '{' at or after from, or -1
RefFirstBrace(s, from) ==
  IF \E k \in from..(Len(s) - 1) : CharAt(s, k) = "{"
  THEN CHOOSE k \in from..(Len(s) - 1) :
         CharAt(s, k) = "{" /\ \A m \in from..(k - 1) : CharAt(s, m) # "{"
  ELSE -1

\* the number of consecutive backslashes that end right before offset p
BackslashRun(s, p) ==
  CHOOSE r \in 0..p :
    /\ \A m \in 1..r : CharAt(s, p - m) = "\\"
    /\ r = p \/ CharAt(s, p - r - 1) # "\\"

\* whether offset k lies inside a string literal that opened at or after offset f:
\* a quote toggles, except a quote inside a string preceded by an odd backslash run
RECURSIVE RefInString(_, _, _)
RefInString(s, f, k) ==
  IF k <= f THEN FALSE
  ELSE LET before == RefInString(s, f, k - 1)
       IN IF CharAt(s, k - 1) = "\""
          THEN IF before /\ BackslashRun(s, k - 1) % 2 = 1 THEN TRUE ELSE ~before
          ELSE before

RefDepth(s, f, k) ==
  Cardinality({p \in f..k : CharAt(s, p) = "{" /\ ~RefInString(s, f, p)})
  - Cardinality({p \in f..k : CharAt(s, p) = "}" /\ ~RefInString(s, f, p)})

\* the offsets of the '}' outside strings that bring the depth back to zero
RefEnds(s, f) ==
  {k \in f..(Len(s) - 1) :
     CharAt(s, k) = "}" /\ ~RefInString(s, f, k) /\ RefDepth(s, f, k) = 0}

RefEnd(s, f) == CHOOSE k \in RefEnds(s, f) : \A m \in RefEnds(s, f) : k <= m

XSelected == xpc = "done" /\ i >= 0 /\ j < Len(text)

\* C8: the span selected begins at the first '{' at or after start and ends at the
\* first '}' that brings the brace depth back to zero, braces inside string literals
\* not counted and an escaped quote not ending the string; no span is selected
\* exactly when there is no such '{' or no such '}'.
C8_SpanSelection ==
  xpc = "done" =>
    LET f == RefFirstBrace(text, start)
    IN /\ i = f
       /\ XSelected <=> (f >= 0 /\ RefEnds(text, f) # {})
       /\ XSelected => j = RefEnd(text, f)
       /\ ret.kind = "object" => (ret.from = f /\ ret.to = RefEnd(text, f))

\* the object holding "1":"1{1}1" (the shape of "msg":"a{b}c"), after a leading
\* character, has been returned whole
C8_Witness ==
  /\ xpc = "done"
  /\ text = <<"1", "{", "\"", "1", "\"", ":", "\"", "1", "{", "1", "}", "1", "\"", "}", "1">>
  /\ ret = [kind |-> "object", from |-> 1, to |-> 13]

\* C9 (result): extractJsonFrom ends with null or an object, never an exception;
\* null exactly when no '{' follows the offset, the braces never balance, or the
\* balanced span is not valid JSON; otherwise the object parsed from that span.
C9_Result ==
  xpc = "done" =>
    LET f == RefFirstBrace(text, start)
        balanced == f >= 0 /\ RefEnds(text, f) # {}
        valid == balanced /\ JsonParses(Slice(text, f, RefEnd(text, f)))
    IN /\ ret.kind \in {"null", "object"}
       /\ ret.kind = "null" <=> ~valid
       /\ valid => ret = [kind |-> "object", from |-> f, to |-> RefEnd(text, f)]

\* C9 (termination): every call step moves on, and every loop step either returns
\* or advances j by one within the text, so the loop ends after at most Len(text)
\* steps; a call that has not returned can always take a step.
C9_Progress ==
  /\ xpc \in {"call", "loop"} => ENABLED NextX
  /\ xpc = "loop" => (0 <= i /\ i <= j /\ j <= Len(text))

C9_StepAdvances ==
  (xpc = "loop" /\ xpc' = "loop") => (j' = j + 1 /\ text' = text)

\* C9: extractJsonFrom never raises, returns null in exactly the three cases of the
\* contract and the parsed object otherwise, and terminates on every finite text.
C9_NeverRaises == [](C9_Result /\ C9_Progress) /\ [][C9_StepAdvances]_vars

\* a balanced span that is not valid JSON has been answered with null
C9_Witness ==
  /\ xpc = "done" /\ XSelected /\ ret.kind = "null"
  /\ text = <<"{", "1", ":", "1", "}">>

(***************************************************************************)
(* parseLogFile (src/index.tsx:122-665)                                    *)
(*                                                                         *)
(* The log text is a sequence of marker occurrences in text order.  Each   *)
(* entry names the marker and what lies between it and the next marker:    *)
(* no '{' at all, a span extractJsonFrom answers with null, or one JSON    *)
(* object.  The position of an occurrence is its index in the sequence.    *)
(* A JSON object is a record of the fields the handlers read; a field is   *)
(* tagged with the kind of JSON value it holds.                            *)
(***************************************************************************)
\* --- JSON values as the handlers see them
\* a timestamp field: missing or falsy, a string Date cannot parse, a date string,
\* a number inside the range of Date, a number beyond it
TsNone == [k |-> "none", t |-> 0]
TsJunk == [k |-> "junk", t |-> 0]
TsStr(t) == [k |-> "str", t |-> t]
TsNum(t) == [k |-> "num", t |-> t]
TsHuge(t) == [k |-> "huge", t |-> t]

\* parseISO (lines 83-91): null for a falsy or unparseable value, a number as it is
parseISO(ts) ==
  IF ts.k = "none" THEN Absent
  ELSE IF ts.k \in {"num", "huge"} THEN Some(ts.t)
  ELSE IF ts.k = "str" THEN Some(ts.t)
  ELSE Absent

\* readAnyTimestamp (lines 285-289) on an object holding one timestamp field
readAnyTimestamp(o) == parseISO(o.timestamp)

\* Date.UTC(2015, 0, 1), the origin of the model's times
MIN_REASONABLE_TS == 0
SEVEN_DAYS == 7 * 24 * 60 * 60 * 1000
\* mutant: the seven days taken as seven milliseconds
MAX_REASONABLE_TS_Millis(clock) == clock + 7

\* MAX_REASONABLE_TS() with Date.now() reading clock
MAX_REASONABLE_TS(clock) == clock + SEVEN_DAYS

\* new Date(ts).toISOString() raises a RangeError for a time beyond the range of
\* Date (8.64e15 ms either side of 1970)
ToISOStringRaises(ts) == ts.k = "huge"

\* normPhase (lines 73-80) on the phase names of the model
normPhase(p) ==
  IF p = Absent THEN Absent
  ELSE IF Val(p) \in {"L1", "L1-N", "Voltage.L1"} THEN Some("L1")
  ELSE IF Val(p) \in {"L2", "L2-N", "Voltage.L2"} THEN Some("L2")
  ELSE IF Val(p) \in {"L3", "L3-N", "Voltage.L3"} THEN Some("L3")
  ELSE Absent

\* m === 'Voltage' || /^Voltage(\.L[123])?$/i.test(m)
IsVolts(m) == m \in {"Voltage", "Voltage.L1", "Voltage.L2", "Voltage.L3"}

\* String(sv.measurand).split('.').pop(): the text after the last dot
MeasurandTail(m) ==
  IF m = "Voltage.L1" THEN "L1"
  ELSE IF m = "Voltage.L2" THEN "L2"
  ELSE IF m = "Voltage.L3" THEN "L3"
  ELSE IF m = "Current.Import" THEN "Import"
  ELSE m

\* a sampled value: a numeric text (whole volts) or a text parseFloat gives NaN for
VNum(v) == [k |-> "num", v |-> v]
VNaN == [k |-> "nan", v |-> 0]

\* --- the parse context: the tables the handlers fill (lines 124-133, 282-283)
ConnIds == {0, 1, 2}
TxIds == {1, 2}

NoSpan == Absent
EmptyCtx ==
  [threw |-> FALSE,
   points |-> <<>>,
   parsingErrors |-> <<>>,
   statusTimeline |-> [c \in ConnIds |-> <<>>],
   txSpansByTx |-> [x \in TxIds |-> NoSpan]]

Raise(ctx) == [ctx EXCEPT !.threw = TRUE]

Incident(prefix, source, raw, pos) ==
  [prefix |-> prefix, source |-> source, raw |-> raw, pos |-> pos]

\* --- the occurrences of a marker and the object extracted at each
NoObj == [k |-> "none"]
BadObj == [k |-> "bad"]

\* text.indexOf(marker, from): the first occurrence at or after position from, 0 if none
NextOccurrence(log, marker, from) ==
  IF \E p \in from..Len(log) : log[p].m = marker
  THEN CHOOSE p \in from..Len(log) :
         log[p].m = marker /\ \A q \in from..(p - 1) : log[q].m # marker
  ELSE 0

\* extractJsonFrom(text, p) (lines 42-71) over entries: the first '{' at or after
\* the occurrence decides; null when there is none or when its span does not
\* balance or parse
ExtractAt(log, p) ==
  IF \E q \in p..Len(log) : log[q].obj.k # "none"
  THEN LET q == CHOOSE q \in p..Len(log) :
                  log[q].obj.k # "none" /\ \A r \in p..(q - 1) : log[r].obj.k = "none"
       IN IF log[q].obj.k = "obj" THEN Some(log[q].obj.o) ELSE Absent
  ELSE Absent

\* pushStatus (lines 291-294)
pushStatus(ctx, conn, ts, status, errorCode) ==
  [ctx EXCEPT !.statusTimeline[conn] =
     Append(@, [ts |-> ts, status |-> status, errorCode |-> errorCode])]

\* the StatusNotification handler (lines 428-439)
StatusHandler(ctx, obj, pos, clock) ==
  LET conn == IF obj.connectorId = Absent THEN 0 ELSE Val(obj.connectorId)
      ts == readAnyTimestamp(obj)
  IN IF ts = Absent THEN ctx
     ELSE IF Val(ts) < MIN_REASONABLE_TS \/ Val(ts) > MAX_REASONABLE_TS(clock)
     THEN IF ToISOStringRaises(obj.timestamp) THEN Raise(ctx)
          ELSE [ctx EXCEPT !.parsingErrors =
                  Append(@, Incident("Suspicious timestamp", "StatusNotification",
                                     obj.timestamp, pos))]
     ELSE pushStatus(ctx, conn, Val(ts), obj.status, obj.errorCode)

\* mutant: the span set to the latest observation instead of widened
Widen_Latest(ctx, tx, conn, ts, idTag) ==
  [ctx EXCEPT !.txSpansByTx[tx] =
     Some([tx |-> tx, connectorId |-> conn, startTs |-> ts, endTs |-> ts, idTag |-> idTag])]

\* the span of a transaction after one more observation (lines 448-453, 461-465,
\* 519-523): the first observation creates it, every one widens it and sets its
\* connector; idTag is Absent when the observation carries none
Widen(ctx, tx, conn, ts, idTag) ==
  LET old == ctx.txSpansByTx[tx]
      cur == IF old = NoSpan
             THEN [tx |-> tx, connectorId |-> conn, startTs |-> ts, endTs |-> ts,
                   idTag |-> Absent]
             ELSE Val(old)
      new == [cur EXCEPT !.startTs = Min2(cur.startTs, ts),
                         !.endTs = Max2(cur.endTs, ts),
                         !.connectorId = conn,
                         !.idTag = IF idTag # Absent THEN idTag ELSE @]
  IN [ctx EXCEPT !.txSpansByTx[tx] = Some(new)]

\* mutant: a session-start timestamp outside the window is skipped
StartHandler_Windowed(ctx, obj, pos, clock) ==
  LET tx == obj.transactionId
      conn == IF obj.connectorId = Absent THEN 1 ELSE Val(obj.connectorId)
      ts == readAnyTimestamp(obj)
  IN IF tx = Absent \/ ts = Absent THEN ctx
     ELSE IF Val(ts) < MIN_REASONABLE_TS \/ Val(ts) > MAX_REASONABLE_TS(clock) THEN ctx
     ELSE Widen(ctx, Val(tx), conn, Val(ts), obj.idTag)

\* the StartTransaction handler (lines 442-454)
StartHandler(ctx, obj, pos, clock) ==
  LET tx == obj.transactionId
      conn == IF obj.connectorId = Absent THEN 1 ELSE Val(obj.connectorId)
      ts == readAnyTimestamp(obj)
  IN IF tx = Absent \/ ts = Absent THEN ctx
     ELSE Widen(ctx, Val(tx), conn, Val(ts), obj.idTag)

\* the StopTransaction handler (lines 455-466)
StopHandler(ctx, obj, pos, clock) ==
  LET tx == obj.transactionId
      conn == IF obj.connectorId = Absent THEN 1 ELSE Val(obj.connectorId)
      ts == readAnyTimestamp(obj)
  IN IF tx = Absent \/ ts = Absent THEN ctx
     ELSE Widen(ctx, Val(tx), conn, Val(ts), Absent)

\* the handler scan() is given for each marker
Handle(marker, ctx, obj, pos, clock) ==
  IF marker = "StatusNotification" THEN StatusHandler(ctx, obj, pos, clock)
  ELSE IF marker = "StartTransaction" THEN StartHandler(ctx, obj, pos, clock)
  ELSE IF marker = "StopTransaction" THEN StopHandler(ctx, obj, pos, clock)
  ELSE ctx

\* scan(marker, handler) (lines 308-317), from position from on; an exception
\* raised by a handler ends the parse
RECURSIVE scan(_, _, _, _, _)
scan(ctx, log, marker, from, clock) ==
  LET p == NextOccurrence(log, marker, from)
  IN IF ctx.threw \/ p = 0 THEN ctx
     ELSE LET obj == ExtractAt(log, p)
              next == IF obj # Absent THEN Handle(marker, ctx, Val(obj), p, clock) ELSE ctx
          IN scan(next, log, marker, p + 1, clock)

\* --- the MeterValues loop (lines 492-550)
\* a field that should hold an array: missing or falsy, a truthy value that cannot
\* be iterated (a number, an object), or a list
NoList == [k |-> "none", list |-> <<>>]
NotIterable == [k |-> "notIterable", list |-> <<>>]
List(l) == [k |-> "list", list |-> l]

\* an element of meterValue or of sampledValue that is null
NullItem == [k |-> "null"]

\* mutant: the bound on the value taken as inclusive (val <= 600)
AcceptSample_Inclusive(phase, val) == phase # Absent /\ val.k = "num" /\ val.v <= 600

\* phase && !isNaN(val) && val < 600 (line 537)
AcceptSample(phase, val) == phase # Absent /\ val.k = "num" /\ val.v < 600

\* the body of `for (const sv of (mv.sampledValue || []))` (lines 527-545)
SampleStep(ctx, sv, name, conn, dt) ==
  IF sv.k = "null" THEN Raise(ctx)
  ELSE IF ~IsVolts(sv.measurand) THEN ctx
  ELSE LET phaseRaw == IF sv.phase # Absent THEN sv.phase
                       ELSE Some(MeasurandTail(sv.measurand))
           phase == normPhase(phaseRaw)
       IN IF AcceptSample(phase, sv.value)
          THEN [ctx EXCEPT !.points =
                  Append(@, [dataset |-> name, connectorId |-> conn, phase |-> Val(phase),
                             ts |-> dt, voltage |-> sv.value.v])]
          ELSE ctx

RECURSIVE SampleLoop(_, _, _, _, _, _)
SampleLoop(ctx, svs, k, name, conn, dt) ==
  IF ctx.threw \/ k > Len(svs) THEN ctx
  ELSE SampleLoop(SampleStep(ctx, svs[k], name, conn, dt), svs, k + 1, name, conn, dt)

\* the two timestamp checks of an entry (lines 505-514): the context after the
\* incident when the entry is skipped (or after the exception toISOString raises),
\* Absent when the timestamp passes
BadTimestamp(ctx, raw, dt, pos, clock) ==
  IF dt = Absent
  THEN Some([ctx EXCEPT !.parsingErrors =
               Append(@, Incident("Invalid timestamp", "MeterValues", raw, pos))])
  ELSE IF Val(dt) < MIN_REASONABLE_TS \/ Val(dt) > MAX_REASONABLE_TS(clock)
  THEN IF ToISOStringRaises(raw) THEN Some(Raise(ctx))
       ELSE Some([ctx EXCEPT !.parsingErrors =
                    Append(@, Incident("Suspicious timestamp", "MeterValues", raw, pos))])
  ELSE Absent

\* the body of `for (const mv of (obj.meterValue || []))` (lines 502-546)
EntryStep(ctx, mv, name, conn, tx, pos, clock) ==
  IF mv.k = "null" THEN Raise(ctx)
  ELSE LET dt == parseISO(mv.timestamp)
           bad == BadTimestamp(ctx, mv.timestamp, dt, pos, clock)
       IN IF bad # Absent THEN Val(bad)
          ELSE LET c1 == IF tx # Absent
                         THEN Widen(ctx, Val(tx), conn, Val(dt), Absent)
                         ELSE ctx
               IN IF mv.sampledValue.k = "notIterable" THEN Raise(c1)
                  ELSE SampleLoop(c1, mv.sampledValue.list, 1, name, conn, Val(dt))

RECURSIVE EntryLoop(_, _, _, _, _, _, _, _)
EntryLoop(ctx, mvs, k, name, conn, tx, pos, clock) ==
  IF ctx.threw \/ k > Len(mvs) THEN ctx
  ELSE EntryLoop(EntryStep(ctx, mvs[k], name, conn, tx, pos, clock),
                 mvs, k + 1, name, conn, tx, pos, clock)

\* the body of `if (obj && obj.meterValue)` (lines 497-548)
MeterHandler(ctx, obj, name, pos, clock) ==
  IF obj.meterValue.k = "none" THEN ctx
  ELSE IF obj.meterValue.k = "notIterable" THEN Raise(ctx)
  ELSE LET conn == IF obj.connectorId = Absent \/ obj.connectorId = Some(0)
                   THEN 1 ELSE Val(obj.connectorId)
       IN EntryLoop(ctx, obj.meterValue.list, 1, name, conn, obj.transactionId, pos, clock)

\* the loop `while (true)` over the occurrences of 'MeterValues' (lines 492-550)
RECURSIVE MeterLoop(_, _, _, _, _)
MeterLoop(ctx, log, name, idx, clock) ==
  LET pos == NextOccurrence(log, "MeterValues", idx)
  IN IF ctx.threw \/ pos = 0 THEN ctx
     ELSE LET obj == ExtractAt(log, pos)
              next == IF obj # Absent THEN MeterHandler(ctx, Val(obj), name, pos, clock)
                      ELSE ctx
          IN MeterLoop(next, log, name, pos + 1, clock)

\* statusTimeline[k].sort((a, b) => a.ts - b.ts) for every connector (lines 488-490)
SortTimelines(ctx) ==
  [ctx EXCEPT !.statusTimeline = [c \in ConnIds |-> SortByTs(@[c])]]

\* --- the triplet fold (lines 552-580)
\* Math.floor(p.ts / 1000) * 1000
RoundToSecond(ts) == (ts \div 1000) * 1000

\* the key `${p.dataset}|${p.connectorId}|${roundedTs}`
TripletKey(dataset, conn, roundedTs) == <<dataset, conn, roundedTs>>

\* mutant: the key built from the unrounded timestamp
KeyOfPoint_Unrounded(p) == TripletKey(p.dataset, p.connectorId, p.ts)

KeyOfPoint(p) == TripletKey(p.dataset, p.connectorId, RoundToSecond(p.ts))

\* the triplet tripletMap.set creates (lines 562-574)
NewTriplet(p) ==
  [id |-> KeyOfPoint(p), ts |-> RoundToSecond(p.ts), dataset |-> p.dataset,
   connectorId |-> p.connectorId, L1 |-> Absent, L2 |-> Absent, L3 |-> Absent,
   delta |-> 0, status |-> "ok", session |-> "idle", sessionId |-> Absent,
   idTag |-> Absent, sessionStatus |-> Absent, sessionErrorCode |-> Absent,
   deviationDetails |-> <<>>]

SetPhase(t, p) ==
  [t EXCEPT !.L1 = IF p.phase = "L1" THEN Some(p.voltage) ELSE @,
            !.L2 = IF p.phase = "L2" THEN Some(p.voltage) ELSE @,
            !.L3 = IF p.phase = "L3" THEN Some(p.voltage) ELSE @]

\* the body of `for (const p of points)`; map is tripletMap in insertion order
FoldPoint(map, p) ==
  LET key == KeyOfPoint(p)
      m1 == IF \E k \in 1..Len(map) : map[k].id = key THEN map
            ELSE Append(map, NewTriplet(p))
  IN [k \in 1..Len(m1) |-> IF m1[k].id = key THEN SetPhase(m1[k], p) ELSE m1[k]]

RECURSIVE FoldPoints(_, _, _)
FoldPoints(map, pts, k) ==
  IF k > Len(pts) THEN map ELSE FoldPoints(FoldPoint(map, pts[k]), pts, k + 1)

\* --- txSpansByConn (lines 583-590)
\* Object.values(txSpansByTx): the spans, transaction ids being integers, in
\* ascending order of id
RECURSIVE SpanValues(_, _)
SpanValues(byTx, ids) ==
  IF ids = {} THEN <<>>
  ELSE LET x == CHOOSE x \in ids : \A y \in ids : x <= y
       IN (IF byTx[x] = NoSpan THEN <<>> ELSE <<Val(byTx[x])>>)
          \o SpanValues(byTx, ids \ {x})

\* sort((a, b) => a.startTs - b.startTs), stable
RECURSIVE InsertByStart(_, _)
InsertByStart(sorted, x) ==
  IF sorted = <<>> \/ sorted[Len(sorted)].startTs <= x.startTs THEN Append(sorted, x)
  ELSE Append(InsertByStart(SubSeq(sorted, 1, Len(sorted) - 1), x), sorted[Len(sorted)])

RECURSIVE SortByStart(_)
SortByStart(s) ==
  IF s = <<>> THEN <<>>
  ELSE InsertByStart(SortByStart(SubSeq(s, 1, Len(s) - 1)), s[Len(s)])

txSpansByConn(ctx) ==
  [c \in ConnIds |->
     SortByStart(SelectSeq(SpanValues(ctx.txSpansByTx, TxIds),
                           LAMBDA sp : sp.connectorId = c))]

\* --- finalization of a triplet (lines 594-653)
SESSION_TOLERANCE == 60000

\* mutant: no tolerance before the start of a span
SpanMatches_NoTolerance(ts, s) == ts >= s.startTs /\ ts <= s.endTs + SESSION_TOLERANCE

\* mutant: no test against the end of the span
SpanMatches_OpenEnd(ts, s) == ts + SESSION_TOLERANCE >= s.startTs

\* t.ts + 60000 >= s.startTs && t.ts <= s.endTs + 60000 (line 612)
SpanMatches(ts, s) == ts + SESSION_TOLERANCE >= s.startTs /\ ts <= s.endTs + SESSION_TOLERANCE

\* the loop `for (let i = spans.length - 1; i >= 0; i--)` from index k down
\* (lines 610-614): the active span, or Absent
RECURSIVE ActiveSpan(_, _, _)
ActiveSpan(spans, k, ts) ==
  IF k < 1 THEN Absent
  ELSE IF SpanMatches(ts, spans[k]) THEN Some(spans[k])
  ELSE IF spans[k].startTs < ts - 10 * 60 * 1000 THEN Absent
  ELSE ActiveSpan(spans, k - 1, ts)

\* mutant: the comparison of the search taken as strict (stArr[mid].ts < t.ts)
RECURSIVE BestIndex_Strict(_, _, _, _, _)
BestIndex_Strict(stArr, ts, lo, hi, best) ==
  IF lo > hi THEN best
  ELSE LET mid == (lo + hi) \div 2
       IN IF stArr[mid].ts < ts THEN BestIndex_Strict(stArr, ts, mid + 1, hi, mid)
          ELSE BestIndex_Strict(stArr, ts, lo, mid - 1, best)

\* the binary search for the last event with ts <= t.ts (lines 640-645)
RECURSIVE BestIndex(_, _, _, _, _)
BestIndex(stArr, ts, lo, hi, best) ==
  IF lo > hi THEN best
  ELSE LET mid == (lo + hi) \div 2
       IN IF stArr[mid].ts <= ts THEN BestIndex(stArr, ts, mid + 1, hi, mid)
          ELSE BestIndex(stArr, ts, lo, mid - 1, best)

\* mutant: delta taken as the largest value
DeltaOf_Largest(t) ==
  LET vals == PresentVals(t)
  IN IF Len(vals) > 1 THEN SeqMax(vals) ELSE 0

\* delta (lines 595-600)
DeltaOf(t) ==
  LET vals == PresentVals(t)
  IN IF Len(vals) > 1 THEN SeqMax(vals) - SeqMin(vals) ELSE 0

\* the body of `for (const t of tripletMap.values())` for one triplet
Finalize(t0, ctx, spansByConn, vmin, vmax) ==
  LET t1 == [t0 EXCEPT !.delta = DeltaOf(t0)]
      e == evaluateStatus(t1, vmin, vmax)
      spans == spansByConn[t1.connectorId]
      active == ActiveSpan(spans, Len(spans), t1.ts)
      stArr == IF ctx.statusTimeline[t1.connectorId] # <<>>
               THEN ctx.statusTimeline[t1.connectorId]
               ELSE ctx.statusTimeline[0]
      best == BestIndex(stArr, t1.ts, 1, Len(stArr), 0)
  IN [t1 EXCEPT
        !.status = e.status,
        !.deviationDetails = e.deviationDetails,
        !.session = IF active # Absent THEN "session" ELSE "idle",
        !.sessionId = IF active # Absent THEN Some(Val(active).tx) ELSE @,
        !.idTag = IF active # Absent /\ Val(active).idTag # Absent THEN Val(active).idTag ELSE @,
        !.sessionStatus = IF best >= 1 THEN stArr[best].status ELSE @,
        !.sessionErrorCode = IF best >= 1 THEN stArr[best].errorCode ELSE @]

\* what a run of parseLogFile gives: the FileData returned (name, enabled,
\* triplets, parsingErrors), or threw when an exception ended the run; points,
\* spans and timeline are the tables of the run, kept for the properties
Outcome(ctx, name, triplets, spansByConn) ==
  [threw |-> ctx.threw,
   name |-> name,
   enabled |-> TRUE,
   triplets |-> triplets,
   parsingErrors |-> ctx.parsingErrors,
   points |-> ctx.points,
   spans |-> spansByConn,
   timeline |-> ctx.statusTimeline]

NoOutcome(name) ==
  [threw |-> TRUE, name |-> name, enabled |-> TRUE, triplets |-> <<>>,
   parsingErrors |-> <<>>, points |-> <<>>,
   spans |-> [c \in ConnIds |-> <<>>], timeline |-> [c \in ConnIds |-> <<>>]]

\* parseLogFile(file, vmin, vmax), Date.now() reading clock during the run
parseLogFile(log, name, vmin, vmax, clock) ==
  LET c1 == scan(EmptyCtx, log, "StatusNotification", 1, clock)
      c2 == scan(c1, log, "StartTransaction", 1, clock)
      c3 == scan(c2, log, "StopTransaction", 1, clock)
      c4 == SortTimelines(c3)
      c5 == MeterLoop(c4, log, name, 1, clock)
  IN IF c5.threw THEN NoOutcome(name)
     ELSE LET points == SortByTs(c5.points)
              map == FoldPoints(<<>>, points, 1)
              byConn == txSpansByConn(c5)
              done == [k \in 1..Len(map) |-> Finalize(map[k], c5, byConn, vmin, vmax)]
          IN Outcome(c5, name, SortByTs(done), byConn)

(***************************************************************************)
(* App: allData and analysisStats (src/index.tsx:724-803)                  *)
(***************************************************************************)
\* a rational number num/den, kept exact (avg and durationHours are quotients)
Ratio(num, den) == <<num, den>>

\* mutant: the filter on enabled dropped
EnabledFiles_All(fs) == fs

\* files.filter(f => f.enabled)
RECURSIVE EnabledFiles(_)
EnabledFiles(fs) ==
  IF fs = <<>> THEN <<>>
  ELSE (IF Head(fs).enabled THEN <<Head(fs)>> ELSE <<>>) \o EnabledFiles(Tail(fs))

\* .flatMap(f => f.triplets)
RECURSIVE FlatTriplets(_)
FlatTriplets(fs) ==
  IF fs = <<>> THEN <<>> ELSE Head(fs).triplets \o FlatTriplets(Tail(fs))

\* { ...t, status, deviationDetails } with the status re-evaluated
ReEvaluate(t, vmin, vmax) ==
  LET e == evaluateStatus(t, vmin, vmax)
  IN [t EXCEPT !.status = e.status, !.deviationDetails = e.deviationDetails]

\* the allData memo
AllData(fs, st) ==
  LET flat == FlatTriplets(EnabledFiles(fs))
  IN SortByTs([k \in 1..Len(flat) |-> ReEvaluate(flat[k], st.vmin, st.vmax)])

\* totalParsingErrors: the parsingErrors lengths of the enabled files, summed
RECURSIVE TotalParsingErrors(_)
TotalParsingErrors(fs) ==
  IF fs = <<>> THEN 0
  ELSE (IF Head(fs).enabled THEN Len(Head(fs).parsingErrors) ELSE 0)
       + TotalParsingErrors(Tail(fs))

initPhaseStats ==
  [min |-> 999, max |-> 0, avg |-> Ratio(0, 1), underCount |-> 0, overCount |-> 0,
   zeroCount |-> 0]

InitStats(data, fs) ==
  [totalPoints |-> Len(data),
   startTime |-> IF Len(data) > 0 THEN Some(data[1].ts) ELSE Absent,
   endTime |-> IF Len(data) > 0 THEN Some(data[Len(data)].ts) ELSE Absent,
   durationHours |-> Ratio(0, 1),
   cntUnder |-> 0, cntOver |-> 0, cntImbalance |-> 0, cntDeepDip |-> 0,
   cntInvalidDates |-> TotalParsingErrors(fs),
   maxDelta |-> 0,
   riskLevel |-> "low",
   phases |-> [L1 |-> initPhaseStats, L2 |-> initPhaseStats, L3 |-> initPhaseStats]]

\* the voltages of phase ph in data, by index
PhaseIndexes(data, ph) ==
  {k \in 1..Len(data) : (IF ph = "L1" THEN data[k].L1 ELSE IF ph = "L2" THEN data[k].L2
                         ELSE data[k].L3) # Absent}
PhaseValue(t, ph) == Val(IF ph = "L1" THEN t.L1 ELSE IF ph = "L2" THEN t.L2 ELSE t.L3)

SetMin(S) == CHOOSE x \in S : \A y \in S : x <= y
SetMax(S) == CHOOSE x \in S : \A y \in S : y <= x

\* sums[ph] after the loop, the indexes lo..hi summed by halves
RECURSIVE PhaseSum(_, _, _, _)
PhaseSum(data, ph, lo, hi) ==
  IF lo > hi THEN 0
  ELSE IF lo = hi
  THEN (IF lo \in PhaseIndexes(data, ph) THEN PhaseValue(data[lo], ph) ELSE 0)
  ELSE PhaseSum(data, ph, lo, (lo + hi) \div 2) + PhaseSum(data, ph, (lo + hi) \div 2 + 1, hi)

\* s.phases[ph] after the loop `for (const t of allData)` and the forEach that
\* follows it (lines 775-794): min and max start from 999 and 0 and follow the
\* values, an untouched min is reset to 0, the counts are those of the values
\* under vmin and over vmax, avg is sums[ph] / counts[ph]
PhaseStats(data, ph, st) ==
  LET has == PhaseIndexes(data, ph)
      vals == {PhaseValue(data[k], ph) : k \in has}
      min == SetMin(vals \cup {999})
  IN [min |-> IF min = 999 THEN 0 ELSE min,
      max |-> SetMax(vals \cup {0}),
      avg |-> IF has # {} THEN Ratio(PhaseSum(data, ph, 1, Len(data)), Cardinality(has))
              ELSE Ratio(0, 1),
      underCount |-> Cardinality({k \in has : PhaseValue(data[k], ph) < st.vmin}),
      overCount |-> Cardinality({k \in has : PhaseValue(data[k], ph) > st.vmax}),
      zeroCount |-> 0]

\* the number of triplets of a status (lines 770-772)
CountStatus(data, status) == Cardinality({k \in 1..Len(data) : data[k].status = status})

\* s.cntDeepDip after the loop: one for every phase value under 190 (line 783)
DeepDips(data) ==
  Cardinality({kp \in (1..Len(data)) \X {"L1", "L2", "L3"} :
                 /\ kp[1] \in PhaseIndexes(data, kp[2])
                 /\ PhaseValue(data[kp[1]], kp[2]) < 190})

\* mutant: the bounds of the risk classification taken as inclusive
RiskLevel_Inclusive(s) ==
  IF s.cntDeepDip > 0 \/ s.maxDelta >= 30 \/ s.cntInvalidDates >= 100 THEN "high"
  ELSE IF s.cntUnder + s.cntOver + s.cntImbalance >= 50 \/ s.cntInvalidDates >= 10
       THEN "medium"
  ELSE "low"

\* the risk classification (lines 796-800)
RiskLevel(s) ==
  LET totalViolations == s.cntUnder + s.cntOver + s.cntImbalance
  IN IF s.cntDeepDip > 0 \/ s.maxDelta > 30 \/ s.cntInvalidDates > 100 THEN "high"
     ELSE IF totalViolations > 50 \/ s.cntInvalidDates > 10 THEN "medium"
     ELSE "low"

\* the analysisStats memo (lines 737-803)
AnalysisStats(data, fs, st) ==
  LET s0 == InitStats(data, fs)
  IN IF Len(data) = 0 THEN s0
     ELSE LET s1 == [s0 EXCEPT
                       !.durationHours =
                          Ratio(Val(s0.endTime) - Val(s0.startTime), 1000 * 60 * 60),
                       !.cntUnder = CountStatus(data, "under"),
                       !.cntOver = CountStatus(data, "over"),
                       !.cntImbalance = CountStatus(data, "imbalance"),
                       !.maxDelta = SetMax({data[k].delta : k \in 1..Len(data)} \cup {0}),
                       !.cntDeepDip = DeepDips(data),
                       !.phases = [L1 |-> PhaseStats(data, "L1", st),
                                   L2 |-> PhaseStats(data, "L2", st),
                                   L3 |-> PhaseStats(data, "L3", st)]]
          IN [s1 EXCEPT !.riskLevel = RiskLevel(s1)]

(***************************************************************************)
(* Runs of parseLogFile: the text is parsed when the clock reads now, and *)
(* once more when it reads now2.                                           *)
(***************************************************************************)
\* --- building blocks of the logs
BaseObj ==
  [connectorId |-> Absent, transactionId |-> Absent, timestamp |-> TsNone,
   status |-> Absent, errorCode |-> Absent, idTag |-> Absent, meterValue |-> NoList]

Sv(measurand, phase, value) ==
  [k |-> "sv", measurand |-> measurand, phase |-> phase, value |-> value]
MvEntry(ts, svs) == [k |-> "entry", timestamp |-> ts, sampledValue |-> List(svs)]
MeterObj(conn, tx, entries) ==
  [BaseObj EXCEPT !.connectorId = conn, !.transactionId = tx, !.meterValue = List(entries)]
Entry(marker, o) == [m |-> marker, obj |-> [k |-> "obj", o |-> o]]
Meter(conn, tx, entries) == Entry("MeterValues", MeterObj(conn, tx, entries))
\* a meter message with one entry holding one sampled value
Meter1(conn, tx, ts, measurand, phase, volts) ==
  Meter(conn, tx, <<MvEntry(ts, <<Sv(measurand, phase, VNum(volts))>>)>>)

MaxLogLen == 3
LogsOver(entries) == UNION {[1..n -> entries] : n \in 0..MaxLogLen}

FileName == "a.log"
DefaultSettings == [vmin |-> 207, vmax |-> 253]

InitParse(entries) ==
  /\ fileText \in LogsOver(entries)
  /\ now = 0 /\ now2 = 0
  /\ parsed = <<>> /\ parsed2 = <<>>
  /\ parsePc = "ready"
  /\ EvIdle /\ XIdle /\ AppIdle /\ ScanIdle /\ MetaIdle /\ BatchIdle

\* handleUpload's call parseLogFile(f, settings.vmin, settings.vmax) (line 706)
ParseRun ==
  /\ parsePc = "ready"
  /\ parsed' = parseLogFile(fileText, FileName, DefaultSettings.vmin, DefaultSettings.vmax, now)
  /\ parsePc' = "parsed"
  /\ UNCHANGED <<fileText, now, now2, parsed2, evVars, xVars, appVars, scanVars, metaVars, batchVars>>

\* the wall clock moves on before the same file is uploaded again
LaterClocks == {0, 5000}
ClockTick ==
  /\ parsePc = "parsed"
  /\ now2' \in LaterClocks
  /\ parsePc' = "again"
  /\ UNCHANGED <<fileText, now, parsed, parsed2, evVars, xVars, appVars, scanVars, metaVars, batchVars>>

ParseAgain ==
  /\ parsePc = "again"
  /\ parsed2' = parseLogFile(fileText, FileName, DefaultSettings.vmin, DefaultSettings.vmax, now2)
  /\ parsePc' = "reparsed"
  /\ UNCHANGED <<fileText, now, now2, parsed, evVars, xVars, appVars, scanVars, metaVars, batchVars>>

NextParse == ParseRun \/ ClockTick \/ ParseAgain

\* --- logs of well-formed meter messages: phases, seconds and connectors
MergeEntries ==
  { Meter1(Some(1), Absent, TsStr(1200), "Voltage.L1", Absent, 230),
    Meter1(Absent, Absent, TsStr(1700), "Voltage", Some("L2"), 231),
    Meter1(Some(1), Absent, TsStr(1999), "Voltage", Some("L1-N"), 229),
    Meter1(Some(2), Absent, TsStr(1200), "Voltage.L1", Absent, 228),
    Meter1(Some(1), Absent, TsNum(2000), "Voltage.L3", Absent, 232),
    Meter1(Some(1), Absent, TsStr(1200), "Voltage.L2", Absent, 601),
    Meter(Some(1), Absent,
          <<MvEntry(TsStr(1500), <<Sv("Voltage.L3", Absent, VNum(233)),
                                   Sv("Current.Import", Some("L1"), VNum(16)),
                                   Sv("Voltage", Absent, VNum(234)),
                                   Sv("Voltage.L1", Absent, VNaN)>>),
            MvEntry(TsStr(2400), <<Sv("Voltage.L1", Absent, VNum(235))>>)>>),
    [m |-> "MeterValues", obj |-> NoObj] }

InitMerge == InitParse(MergeEntries)
SpecMerge == InitMerge /\ [][NextParse]_vars

\* the triplets of the FileData that share the key of triplet t
SameKey(ts, t) ==
  {k \in 1..Len(ts) : ts[k].dataset = t.dataset /\ ts[k].connectorId = t.connectorId
                      /\ ts[k].ts = t.ts}
PhaseOf(t, ph) == IF ph = "L1" THEN t.L1 ELSE IF ph = "L2" THEN t.L2 ELSE t.L3

\* C1: the returned list holds at most one triplet per (dataset, connectorId,
\* second), and every accepted sample lies in exactly one triplet, that of its
\* connector and second, which has the sample's phase populated.
C1_OneTripletPerSecond ==
  parsePc = "parsed" /\ ~parsed.threw =>
    /\ \A k \in 1..Len(parsed.triplets) :
         /\ SameKey(parsed.triplets, parsed.triplets[k]) = {k}
         /\ parsed.triplets[k].ts % 1000 = 0
    /\ \A n \in 1..Len(parsed.points) :
         LET p == parsed.points[n]
             home == {k \in 1..Len(parsed.triplets) :
                        /\ parsed.triplets[k].dataset = p.dataset
                        /\ parsed.triplets[k].connectorId = p.connectorId
                        /\ parsed.triplets[k].ts <= p.ts
                        /\ p.ts < parsed.triplets[k].ts + 1000}
         IN /\ Cardinality(home) = 1
            /\ \A k \in home : PhaseOf(parsed.triplets[k], p.phase) # Absent

\* two messages of the same second and connector, phases L1 and L2, gave one
\* triplet holding both
C1_Witness ==
  /\ parsePc = "parsed" /\ ~parsed.threw
  /\ Len(fileText) = 2 /\ Len(parsed.points) = 2 /\ Len(parsed.triplets) = 1
  /\ parsed.points[1].ts # parsed.points[2].ts
  /\ parsed.triplets[1].L1 = Some(230) /\ parsed.triplets[1].L2 = Some(231)
  /\ parsed.triplets[1].L3 = Absent

\* --- logs with bad timestamps and payloads of unexpected shape
NearFuture == SEVEN_DAYS + 2000
\* a time beyond the range of Date, as far as 32 bits go
BeyondDate == 2 * 1000 * 1000 * 1000
GoodSv == <<Sv("Voltage.L1", Absent, VNum(230))>>
StatusAt(conn, ts, status) ==
  Entry("StatusNotification",
        [BaseObj EXCEPT !.connectorId = conn, !.timestamp = ts, !.status = Some(status)])

ErrorEntries ==
  { Meter1(Some(1), Absent, TsStr(1200), "Voltage.L1", Absent, 230),
    Meter(Some(1), Absent, <<MvEntry(TsStr(2300), <<Sv("Voltage.L2", Absent, VNum(599)),
                                                    Sv("Voltage.L3", Absent, VNum(600))>>)>>),
    Meter1(Some(1), Absent, TsJunk, "Voltage.L3", Absent, 233),
    Meter1(Some(1), Absent, TsStr(0 - 86400000), "Voltage.L1", Absent, 234),
    Meter1(Some(1), Absent, TsStr(NearFuture), "Voltage.L1", Absent, 235),
    Meter1(Some(1), Absent, TsHuge(BeyondDate), "Voltage.L1", Absent, 236),
    Meter(Some(1), Absent, <<MvEntry(TsNone, GoodSv),
                             MvEntry(TsStr(1300), <<Sv("Voltage.L3", Absent, VNum(237))>>)>>),
    Entry("MeterValues", [BaseObj EXCEPT !.meterValue = NotIterable]),
    Meter(Some(1), Absent, <<MvEntry(TsStr(1400), GoodSv), NullItem>>),
    Meter(Some(1), Absent, <<MvEntry(TsStr(1500), <<NullItem>>)>>),
    [m |-> "MeterValues", obj |-> NoObj],
    StatusAt(Some(1), TsStr(NearFuture), "Faulted") }

InitErrors == InitParse(ErrorEntries)
SpecErrors == InitErrors /\ [][NextParse]_vars

RemoveAt(s, n) == SubSeq(s, 1, n - 1) \o SubSeq(s, n + 1, Len(s))

\* the entries of the meterValue lists of the text, as <<message, entry>>
EntryRefs(log) ==
  {r \in (1..Len(log)) \X (1..2) :
     /\ log[r[1]].m = "MeterValues" /\ log[r[1]].obj.k = "obj"
     /\ log[r[1]].obj.o.meterValue.k = "list"
     /\ r[2] <= Len(log[r[1]].obj.o.meterValue.list)
     /\ log[r[1]].obj.o.meterValue.list[r[2]].k = "entry"}
EntryAt(log, r) == log[r[1]].obj.o.meterValue.list[r[2]]
Unparseable(ts) == parseISO(ts) = Absent
OutOfWindow(ts, t) ==
  /\ parseISO(ts) # Absent
  /\ Val(parseISO(ts)) < 0 \/ Val(parseISO(ts)) > t + SEVEN_DAYS
BadRefs(log, t) ==
  {r \in EntryRefs(log) :
     Unparseable(EntryAt(log, r).timestamp) \/ OutOfWindow(EntryAt(log, r).timestamp, t)}
WithoutEntry(log, r) ==
  [log EXCEPT ![r[1]].obj.o.meterValue.list = RemoveAt(@, r[2])]

\* every marker of the text is followed by its own object, whose lists are lists
\* without null elements
ShapeOk(e) ==
  /\ e.obj.k = "obj"
  /\ e.obj.o.meterValue.k # "notIterable"
  /\ \A n \in 1..Len(e.obj.o.meterValue.list) :
       LET mv == e.obj.o.meterValue.list[n]
       IN /\ mv.k = "entry"
          /\ mv.sampledValue.k # "notIterable"
          /\ \A q \in 1..Len(mv.sampledValue.list) : mv.sampledValue.list[q].k = "sv"
WellShaped(log) == \A q \in 1..Len(log) : ShapeOk(log[q])

\* the timestamps written in a message
TimesOf(e) ==
  IF e.obj.k # "obj" THEN {}
  ELSE {e.obj.o.timestamp} \cup
       {e.obj.o.meterValue.list[n].timestamp :
          n \in {q \in 1..Len(e.obj.o.meterValue.list) :
                   e.obj.o.meterValue.list[q].k = "entry"}}
NoTimeBeyondDate(log) ==
  \A q \in 1..Len(log) : \A ts \in TimesOf(log[q]) : ts.k # "huge"

IsMeterTimestampIncident(x) ==
  x.source = "MeterValues" /\ x.prefix \in {"Invalid timestamp", "Suspicious timestamp"}

\* C3: on a text with exactly one meter entry whose timestamp is bad (every
\* marker being followed by its own object of the expected shape), the parse
\* returns, records exactly one incident for the entry, 'Invalid timestamp' when
\* it is unparseable and 'Suspicious timestamp' when it is outside the window,
\* and its points and triplets are those of the text without the entry.
C3_BadEntryIsolated ==
  parsePc = "parsed" /\ WellShaped(fileText) /\ Cardinality(BadRefs(fileText, now)) = 1 =>
    LET r == CHOOSE x \in BadRefs(fileText, now) : TRUE
        ref == parseLogFile(WithoutEntry(fileText, r), FileName,
                            DefaultSettings.vmin, DefaultSettings.vmax, now)
        mine == SelectSeq(parsed.parsingErrors, IsMeterTimestampIncident)
    IN /\ ~parsed.threw
       /\ Len(mine) = 1
       /\ mine[1].prefix = IF Unparseable(EntryAt(fileText, r).timestamp)
                           THEN "Invalid timestamp" ELSE "Suspicious timestamp"
       /\ parsed.points = ref.points
       /\ parsed.triplets = ref.triplets

\* the messages of the text that are of the expected shape
WellFormedPart(log) == SelectSeq(log, ShapeOk)
HasTriplet(ts, t) ==
  \E k \in 1..Len(ts) :
    /\ ts[k].id = t.id
    /\ \A ph \in {"L1", "L2", "L3"} : PhaseOf(t, ph) # Absent => PhaseOf(ts[k], ph) # Absent

\* C10: whatever the shape of the objects that follow the markers (no timestamp
\* being beyond the range of Date), the parse returns a FileData, which holds
\* the triplets of the well-formed messages of the log.
C10_MalformedNeverAborts ==
  parsePc = "parsed" /\ NoTimeBeyondDate(fileText) =>
    /\ ~parsed.threw
    /\ LET ref == parseLogFile(WellFormedPart(fileText), FileName,
                               DefaultSettings.vmin, DefaultSettings.vmax, now)
       IN \A k \in 1..Len(ref.triplets) : HasTriplet(parsed.triplets, ref.triplets[k])

\* the timestamps of the text that one run takes as inside the window and the
\* other as outside: those between the two upper bounds
Earlier == IF now <= now2 THEN now ELSE now2
Later == IF now <= now2 THEN now2 ELSE now
TimesBetweenBounds ==
  {ts \in UNION {TimesOf(fileText[q]) : q \in 1..Len(fileText)} :
     /\ parseISO(ts) # Absent
     /\ Val(parseISO(ts)) > Earlier + SEVEN_DAYS
     /\ Val(parseISO(ts)) <= Later + SEVEN_DAYS}
SameResult ==
  /\ parsed.threw = parsed2.threw
  /\ parsed.triplets = parsed2.triplets
  /\ parsed.parsingErrors = parsed2.parsingErrors

\* C7 as stated: the two runs return the same triplets and the same incidents
\* whatever the clock reads at each run.
C7_SameResultAnyClock == parsePc = "reparsed" => SameResult

\* C7, amended: the two runs return the same triplets and the same incidents
\* when no timestamp of the text lies after the earlier run's upper bound
\* (clock + 7 days) and at or before the later run's.
C7_SameResultSameWindow ==
  parsePc = "reparsed" /\ TimesBetweenBounds = {} => SameResult

\* two runs at different clock readings of a log with accepted and rejected
\* samples, none between the two bounds
C7_Witness ==
  /\ parsePc = "reparsed" /\ now # now2 /\ TimesBetweenBounds = {}
  /\ ~parsed.threw
  /\ Len(parsed.triplets) = 2 /\ Len(parsed.parsingErrors) = 1
  /\ parsed.parsingErrors[1].prefix = "Suspicious timestamp"
  /\ SameResult

\* the triplets and points of a run at clock reading t keep to the bounds
WithinBounds(o, t) ==
  /\ \A k \in 1..Len(o.triplets) :
       /\ \A ph \in {"L1", "L2", "L3"} :
            PhaseOf(o.triplets[k], ph) # Absent => Val(PhaseOf(o.triplets[k], ph)) < 600
       /\ 0 <= o.triplets[k].ts /\ o.triplets[k].ts <= t + SEVEN_DAYS
  /\ \A n \in 1..Len(o.points) : o.points[n].voltage < 600

\* C11: in every FileData returned, every present phase value is below 600 and
\* every triplet timestamp lies in [2015-01-01, parse time + 7 days]; a sampled
\* value of 600 or more gives no VoltagePoint.
C11_ValuesAndTimesBounded ==
  /\ parsePc \in {"parsed", "again", "reparsed"} /\ ~parsed.threw => WithinBounds(parsed, now)
  /\ parsePc = "reparsed" /\ ~parsed2.threw => WithinBounds(parsed2, now2)

\* a run over samples of 599 and 600 volts and an entry after the window: the
\* triplet holds 599 alone, the late entry gave none
C11_Witness ==
  /\ parsePc = "parsed" /\ ~parsed.threw /\ Len(fileText) = 2
  /\ Len(parsed.triplets) = 1
  /\ parsed.triplets[1].L2 = Some(599) /\ parsed.triplets[1].L3 = Absent
  /\ Len(parsed.parsingErrors) = 1
  /\ parsed.parsingErrors[1].prefix = "Suspicious timestamp"
  /\ parsed.parsingErrors[1].source = "MeterValues"

\* --- logs with transactions: a span [T0, T0 + 600000] on connector 1 and
\* samples around its ends
T0 == 2 * 60 * 1000
SpanLength == 10 * 60 * 1000
StartAt(conn, tx, ts, tag) ==
  Entry("StartTransaction",
        [BaseObj EXCEPT !.connectorId = conn, !.transactionId = Some(tx),
                        !.timestamp = ts, !.idTag = tag])
StopAt(conn, tx, ts) ==
  Entry("StopTransaction",
        [BaseObj EXCEPT !.connectorId = conn, !.transactionId = Some(tx), !.timestamp = ts])

SessionEntries ==
  { StartAt(Some(1), 1, TsStr(T0), Some("TAG")),
    StopAt(Absent, 1, TsStr(T0 + SpanLength)),
    Meter(Some(1), Absent, <<MvEntry(TsStr(T0 - 61000), GoodSv),
                             MvEntry(TsStr(T0 - 59000), GoodSv)>>),
    Meter1(Some(1), Absent, TsStr(T0 - 60000), "Voltage.L1", Absent, 230),
    Meter1(Some(1), Absent, TsStr(T0 + SpanLength + 60000), "Voltage.L2", Absent, 231),
    Meter1(Some(1), Absent, TsStr(T0 + SpanLength + 61000), "Voltage.L3", Absent, 232),
    Meter1(Some(1), Some(2), TsStr(T0 + 1000), "Voltage.L1", Absent, 229),
    Meter1(Some(2), Some(1), TsStr(T0 - 59500), "Voltage.L1", Absent, 228),
    Meter1(Some(2), Absent, TsStr(T0 + 500), "Voltage.L2", Absent, 227) }

InitSession == InitParse(SessionEntries)
SpecSession == InitSession /\ [][NextParse]_vars

\* C4: a triplet of a connector that has a single span [s, e] is 'session',
\* under that span's transaction id, exactly when t + 60000 >= s and
\* t <= e + 60000, and 'idle' otherwise.
C4_SessionTolerance ==
  parsePc = "parsed" /\ ~parsed.threw =>
    \A k \in 1..Len(parsed.triplets) :
      LET t == parsed.triplets[k]
          spans == parsed.spans[t.connectorId]
      IN Len(spans) = 1 =>
           IF t.ts + 60000 >= spans[1].startTs /\ t.ts <= spans[1].endTs + 60000
           THEN t.session = "session" /\ t.sessionId = Some(spans[1].tx)
           ELSE t.session = "idle" /\ t.sessionId = Absent

\* the span [T0, T0 + 600000] of transaction 1 on connector 1, with a triplet at
\* T0 - 61000 that is idle and one at T0 - 59000 that is in the session
C4_Witness ==
  /\ parsePc = "parsed" /\ ~parsed.threw
  /\ Len(parsed.spans[1]) = 1
  /\ parsed.spans[1][1].startTs = T0 /\ parsed.spans[1][1].endTs = T0 + SpanLength
  /\ Len(parsed.triplets) = 2
  /\ parsed.triplets[1].connectorId = 1 /\ parsed.triplets[1].ts = T0 - 61000
  /\ parsed.triplets[1].session = "idle"
  /\ parsed.triplets[2].connectorId = 1 /\ parsed.triplets[2].ts = T0 - 59000
  /\ parsed.triplets[2].session = "session"
  /\ parsed.triplets[2].sessionId = Some(1)

\* --- logs with status events: events of connectors 0, 1 and 2, then samples
StatusEvent(conn, ts, status, errorCode) ==
  Entry("StatusNotification",
        [BaseObj EXCEPT !.connectorId = conn, !.timestamp = ts, !.status = status,
                        !.errorCode = errorCode])
StatusEvents ==
  { StatusEvent(Some(1), TsStr(1000), Some("Charging"), Some("NoError")),
    StatusEvent(Some(1), TsStr(3000), Some("Faulted"), Some("GroundFailure")),
    StatusEvent(Some(1), TsStr(3000), Some("Finishing"), Absent),
    StatusEvent(Absent, TsStr(2000), Some("Available"), Some("NoError")),
    StatusEvent(Some(2), TsStr(5000), Absent, Some("OtherError")) }
StatusSamples ==
  { Meter1(Some(1), Absent, TsStr(500), "Voltage.L1", Absent, 230),
    Meter1(Some(1), Absent, TsStr(2400), "Voltage.L1", Absent, 231),
    Meter1(Some(1), Absent, TsStr(3100), "Voltage.L1", Absent, 232),
    Meter1(Some(2), Absent, TsStr(2400), "Voltage.L1", Absent, 233) }
MaxSamples == 2

InitStatus ==
  /\ \E pre \in LogsOver(StatusEvents) :
       \E post \in UNION {[1..n -> StatusSamples] : n \in 0..MaxSamples} :
         fileText = pre \o post
  /\ now = 0 /\ now2 = 0
  /\ parsed = <<>> /\ parsed2 = <<>>
  /\ parsePc = "ready"
  /\ EvIdle /\ XIdle /\ AppIdle /\ ScanIdle /\ MetaIdle /\ BatchIdle
SpecStatus == InitStatus /\ [][NextParse]_vars

\* the timeline a triplet of connector c is matched against
UsedTimeline(o, c) == IF o.timeline[c] # <<>> THEN o.timeline[c] ELSE o.timeline[0]
\* the indexes of the events at or before ts
AtOrBefore(tl, ts) == {k \in 1..Len(tl) : tl[k].ts <= ts}

\* C13: a triplet is matched against the timeline of its own connector when
\* there is one and against that of connector 0 otherwise; when the timeline
\* has an event with ts <= triplet.ts, sessionStatus and sessionErrorCode are
\* those of the last such event, which has the greatest such ts; otherwise both
\* stay absent.
C13_StatusAssociation ==
  parsePc = "parsed" /\ ~parsed.threw =>
    \A k \in 1..Len(parsed.triplets) :
      LET t == parsed.triplets[k]
          tl == UsedTimeline(parsed, t.connectorId)
          before == AtOrBefore(tl, t.ts)
      IN IF before = {}
         THEN t.sessionStatus = Absent /\ t.sessionErrorCode = Absent
         ELSE LET last == CHOOSE x \in before : \A y \in before : y <= x
              IN /\ t.sessionStatus = tl[last].status
                 /\ t.sessionErrorCode = tl[last].errorCode
                 /\ \A y \in before : tl[y].ts <= tl[last].ts

\* connector 1 has the events at 1000 and 3000: the triplet at 3000 takes the
\* event of its own second, and the triplet of connector 2, which has no
\* timeline, takes the event of connector 0
C13_Witness ==
  /\ parsePc = "parsed" /\ ~parsed.threw
  /\ Len(parsed.timeline[1]) = 2 /\ Len(parsed.timeline[0]) = 1
  /\ parsed.timeline[2] = <<>>
  /\ Len(parsed.triplets) = 2
  /\ parsed.triplets[1].connectorId = 2
  /\ parsed.triplets[1].sessionStatus = Some("Available")
  /\ parsed.triplets[2].connectorId = 1 /\ parsed.triplets[2].ts = 3000
  /\ parsed.triplets[2].sessionStatus = Some("Faulted")
  /\ parsed.triplets[2].sessionErrorCode = Some("GroundFailure")

(***************************************************************************)
(* The App: files are uploaded and removed, the settings change, and the   *)
(* memos allData and analysisStats follow.                                 *)
(***************************************************************************)
\* a file as parseLogFile returns it for a log of one connector: n readings one
\* second apart from t, each of the phase voltages volts (L1, then L2), then
\* errs readings whose timestamp does not parse
StatsTriplet(name, ts, volts, st) ==
  LET p1 == [dataset |-> name, connectorId |-> 1, phase |-> "L1", ts |-> ts,
             voltage |-> volts[1]]
      t1 == SetPhase(NewTriplet(p1), p1)
      t2 == IF Len(volts) > 1 THEN SetPhase(t1, [p1 EXCEPT !.phase = "L2", !.voltage = volts[2]])
            ELSE t1
  IN Finalize(t2, EmptyCtx, [c \in ConnIds |-> <<>>], st.vmin, st.vmax)
StatsFile(name, n, t, volts, errs, st) ==
  [threw |-> FALSE,
   name |-> name,
   enabled |-> TRUE,
   triplets |-> AsSeq([k \in 1..n |-> StatsTriplet(name, t + 1000 * k, volts, st)]),
   parsingErrors |-> AsSeq([k \in 1..errs |->
                             Incident("Invalid timestamp", "MeterValues", TsJunk, 1)])]

StatsNames ==
  {"ok.log", "under50.log", "under1.log", "delta30.log", "delta31.log", "dip.log",
   "dip2.log", "errs100.log", "empty150.log", "bad.log"}
\* what parseLogFile gives for the file of a name; bad.log holds a meterValue
\* that is not a list, which ends the run by an exception
ParseOf(name, st) ==
  CASE name = "ok.log" -> StatsFile(name, 1, 0, <<230>>, 0, st)
    [] name = "under50.log" -> StatsFile(name, 50, 100000, <<200>>, 0, st)
    [] name = "under1.log" -> StatsFile(name, 1, 200000, <<200>>, 1, st)
    [] name = "delta30.log" -> StatsFile(name, 1, 300000, <<250, 220>>, 10, st)
    [] name = "delta31.log" -> StatsFile(name, 1, 400000, <<251, 220>>, 0, st)
    [] name = "dip.log" -> StatsFile(name, 1, 500000, <<189>>, 0, st)
    [] name = "dip2.log" -> StatsFile(name, 1, 700000, <<180, 185>>, 0, st)
    [] name = "errs100.log" -> StatsFile(name, 1, 600000, <<230>>, 100, st)
    [] name = "empty150.log" -> StatsFile(name, 0, 0, <<230>>, 150, st)
    [] OTHER -> [StatsFile(name, 0, 0, <<230>>, 0, st) EXCEPT !.threw = TRUE]

SettingsSet == {[vmin |-> 207, vmax |-> 253], [vmin |-> 195, vmax |-> 253]}
MaxFiles == 2

ParsedUnder == [st \in SettingsSet |-> [name \in StatsNames |-> ParseOf(name, st)]]
\* the FileData returned (lines 656-664)
FileDataOf(o) ==
  [name |-> o.name, enabled |-> o.enabled, triplets |-> o.triplets,
   parsingErrors |-> o.parsingErrors]

InitApp ==
  /\ files = <<>>
  /\ settings = [vmin |-> 207, vmax |-> 253]
  /\ allData = AllData(<<>>, settings)
  /\ analysisStats = AnalysisStats(<<>>, <<>>, settings)
  /\ appPc = "ready" /\ appLast = "none" /\ timezone = "Europe/Kyiv"
  /\ EvIdle /\ XIdle /\ ParseIdle /\ ScanIdle /\ MetaIdle /\ BatchIdle

\* the memos after a change of files or settings
Memos(fs, st) ==
  /\ allData' = AllData(fs, st)
  /\ analysisStats' = AnalysisStats(allData', fs, st)

\* handleUpload (lines 700-717) of one file: an exception of the parse leaves
\* files as it is
handleUpload(name) ==
  /\ appPc = "ready" /\ Len(files) < MaxFiles
  /\ LET data == ParsedUnder[settings][name]
     IN files' = IF data.threw THEN files ELSE Append(files, FileDataOf(data))
  /\ Memos(files', settings)
  /\ appLast' = "handleUpload"
  /\ UNCHANGED <<settings, appPc, timezone, evVars, xVars, parseVars, scanVars, metaVars, batchVars>>

\* mutant: only the first file of the name taken out
RECURSIVE WithoutName_First(_, _)
WithoutName_First(fs, name) ==
  IF fs = <<>> THEN <<>>
  ELSE IF Head(fs).name = name THEN Tail(fs)
  ELSE <<Head(fs)>> \o WithoutName_First(Tail(fs), name)

\* prev.filter(f => f.name !== name)
RECURSIVE WithoutName(_, _)
WithoutName(fs, name) ==
  IF fs = <<>> THEN <<>>
  ELSE (IF Head(fs).name # name THEN <<Head(fs)>> ELSE <<>>) \o WithoutName(Tail(fs), name)

\* removeFile (lines 719-721), from the button of a listed file
removeFile(name) ==
  /\ appPc = "ready"
  /\ \E k \in 1..Len(files) : files[k].name = name
  /\ files' = WithoutName(files, name)
  /\ Memos(files', settings)
  /\ appLast' = "removeFile"
  /\ UNCHANGED <<settings, appPc, timezone, evVars, xVars, parseVars, scanVars, metaVars, batchVars>>

\* onSettingsChange={setSettings} (line 939)
setSettings(st) ==
  /\ appPc = "ready" /\ st # settings
  /\ settings' = st
  /\ Memos(files, st)
  /\ appLast' = "setSettings"
  /\ UNCHANGED <<files, appPc, timezone, evVars, xVars, parseVars, scanVars, metaVars, batchVars>>

NextApp ==
  \/ \E name \in StatsNames : handleUpload(name)
  \/ \E name \in StatsNames : removeFile(name)
  \/ \E st \in SettingsSet : setSettings(st)

SpecApp == InitApp /\ [][NextApp]_vars

\* what the files hold, counted from files and settings alone
RECURSIVE IncidentCount(_)
IncidentCount(fs) ==
  IF fs = <<>> THEN 0
  ELSE (IF Head(fs).enabled THEN Len(Head(fs).parsingErrors) ELSE 0) + IncidentCount(Tail(fs))
RECURSIVE TripletCount(_)
TripletCount(fs) ==
  IF fs = <<>> THEN 0
  ELSE (IF Head(fs).enabled THEN Len(Head(fs).triplets) ELSE 0) + TripletCount(Tail(fs))

AtLeast(level, floor) ==
  \/ floor = "low"
  \/ floor = "medium" /\ level \in {"medium", "high"}
  \/ floor = "high" /\ level = "high"

\* C5: when the enabled files contribute at least one triplet, riskLevel is
\* 'high' if cntDeepDip > 0 or maxDelta > 30 or the incident count > 100,
\* otherwise 'medium' if cntUnder + cntOver + cntImbalance > 50 or the incident
\* count > 10, otherwise 'low'.
C5_RiskClassification ==
  appPc = "ready" /\ TripletCount(files) >= 1 =>
    LET s == analysisStats
        incidents == IncidentCount(files)
    IN s.riskLevel =
         IF s.cntDeepDip > 0 \/ s.maxDelta > 30 \/ incidents > 100 THEN "high"
         ELSE IF s.cntUnder + s.cntOver + s.cntImbalance > 50 \/ incidents > 10
              THEN "medium"
         ELSE "low"

\* exactly 50 violations, with nothing else to escalate: 'low'
C5_Witness ==
  /\ appPc = "ready" /\ TripletCount(files) >= 1
  /\ analysisStats.cntUnder + analysisStats.cntOver + analysisStats.cntImbalance = 50
  /\ analysisStats.cntDeepDip = 0 /\ analysisStats.maxDelta <= 30
  /\ IncidentCount(files) <= 10
  /\ analysisStats.riskLevel = "low"

\* C6: whatever triplets the files hold, more than 100 incidents in the enabled
\* files give riskLevel 'high', and more than 10 give at least 'medium'.
C6_IncidentsEscalate ==
  appPc = "ready" =>
    /\ IncidentCount(files) > 100 => analysisStats.riskLevel = "high"
    /\ IncidentCount(files) > 10 => AtLeast(analysisStats.riskLevel, "medium")


\* the triplet as the fold creates it, before any evaluation
Unevaluated(t) == [t EXCEPT !.status = "ok", !.deviationDetails = <<>>]

\* the status and deviations of every aggregated triplet are those of a call of
\* evaluateStatus on its voltages under the current thresholds, whatever
\* status it carried and whatever thresholds were in force before
FreshlyEvaluated ==
  appPc = "ready" =>
    \A k \in 1..Len(allData) :
      LET e == evaluateStatus(Unevaluated(allData[k]), settings.vmin, settings.vmax)
      IN allData[k].status = e.status /\ allData[k].deviationDetails = e.deviationDetails

\* a change of thresholds leaves the stored files as they are
SettingsKeepFiles == settings' # settings => files' = files

\* C12: evaluateStatus depends on the voltages, delta and thresholds alone and
\* leaves the triplet as it is: the aggregated statuses are always those of a
\* fresh evaluation under the current thresholds, and a change of thresholds
\* does not touch the stored triplets, so that going to new thresholds and back
\* gives the original statuses without a new parse.
C12_ReEvaluation == []FreshlyEvaluated /\ [][SettingsKeepFiles]_vars

\* a triplet stored as 'under' at upload is 'ok' under the lowered vmin
C12_Witness ==
  /\ appPc = "ready" /\ settings.vmin = 195
  /\ Len(files) = 1 /\ Len(files[1].triplets) = 1
  /\ files[1].triplets[1].status = "under"
  /\ Len(allData) = 1 /\ allData[1].status = "ok"


\* the aggregated triplets that hold a phase value under 190
DeepDipTriplets ==
  {k \in 1..Len(allData) :
     \E ph \in {"L1", "L2", "L3"} :
       PhaseOf(allData[k], ph) # Absent /\ Val(PhaseOf(allData[k], ph)) < 190}

\* C14: cntDeepDip is the number of aggregated triplets that hold at least one
\* present phase value under 190.
C14_DeepDipCountsTriplets ==
  appPc = "ready" => analysisStats.cntDeepDip = Cardinality(DeepDipTriplets)


\* --- the App with the external switch of a file's enabled flag
ToggleNames == {"ok.log", "under1.log", "delta30.log", "dip2.log"}

\* FileData.enabled "is externally toggled": the flag of the k-th file flips, the
\* file stays in the list
toggleEnabled(k) ==
  /\ appPc = "ready" /\ k \in 1..Len(files)
  /\ files' = [files EXCEPT ![k].enabled = ~@]
  /\ Memos(files', settings)
  /\ appLast' = "toggleEnabled"
  /\ UNCHANGED <<settings, appPc, timezone, evVars, xVars, parseVars, scanVars, metaVars, batchVars>>

NextToggle ==
  \/ \E name \in ToggleNames : handleUpload(name)
  \/ \E name \in ToggleNames : removeFile(name)
  \/ \E st \in SettingsSet : setSettings(st)
  \/ \E k \in 1..MaxFiles : toggleEnabled(k)

SpecToggle == InitApp /\ [][NextToggle]_vars

IsEnabled(f) == f.enabled
\* the list of files with the disabled ones taken out
EnabledOnly == SelectSeq(files, IsEnabled)
\* the triplets of the enabled files, as <<file, index>>
EnabledTriplets ==
  UNION {{<<f, k>> : k \in 1..Len(files[f].triplets)} :
           f \in {g \in 1..Len(files) : files[g].enabled}}
SameReading(a, t) ==
  /\ a.id = t.id /\ a.ts = t.ts /\ a.L1 = t.L1 /\ a.L2 = t.L2 /\ a.L3 = t.L3
  /\ a.delta = t.delta

LongSpan == 2 * SpanLength
ScanEntries ==
  { Meter(Some(1), Some(1), <<MvEntry(TsStr(T0), GoodSv),
                              MvEntry(TsStr(T0 + LongSpan), GoodSv)>>),
    Meter1(Some(1), Some(2), TsStr(T0 + 60000), "Voltage.L1", Absent, 230),
    Meter1(Some(1), Absent, TsStr(T0 + LongSpan - 120000), "Voltage.L2", Absent, 231),
    StartAt(Some(1), 2, TsStr(T0 + 300000), Absent),
    Meter1(Some(2), Some(2), TsStr(T0 + 90000), "Voltage.L3", Absent, 232) }

InitScan == InitParse(ScanEntries)
SpecScan == InitScan /\ [][NextParse]_vars

\* the spans of a list that hold ts with the tolerance, by index
MatchingSpans(spans, ts) == {k \in 1..Len(spans) : SpanMatches(ts, spans[k])}

\* C16: the span a triplet gets from the scan with the early break is the one
\* a full latest-to-earliest scan of the connector's spans selects: the last
\* span holding the triplet's time with the 60-second tolerance, or none.
C16_EarlyBreakKeepsResult ==
  parsePc = "parsed" /\ ~parsed.threw =>
    \A k \in 1..Len(parsed.triplets) :
      LET t == parsed.triplets[k]
          spans == parsed.spans[t.connectorId]
          m == MatchingSpans(spans, t.ts)
      IN IF m = {}
         THEN t.session = "idle" /\ t.sessionId = Absent
         ELSE /\ t.session = "session"
              /\ t.sessionId = Some(spans[CHOOSE x \in m : \A y \in m : y <= x].tx)


\* the connector a message is recorded under (lines 443, 457, 498)
ConnOfEntry(e) ==
  LET c == e.obj.o.connectorId
  IN IF c = Absent THEN 1
     ELSE IF e.m = "MeterValues" /\ Val(c) = 0 THEN 1
     ELSE Val(c)
\* every transaction id of the log is reported on one connector only
OneConnectorPerTx(log) ==
  \A a, b \in {q \in 1..Len(log) : log[q].obj.k = "obj"} :
    /\ log[a].obj.o.transactionId # Absent
    /\ log[a].obj.o.transactionId = log[b].obj.o.transactionId
    => ConnOfEntry(log[a]) = ConnOfEntry(log[b])
\* the meter entry gives at least one VoltagePoint when parsed at clock t
HasAcceptedSample(mv, t) ==
  /\ ~Unparseable(mv.timestamp) /\ ~OutOfWindow(mv.timestamp, t)
  /\ mv.sampledValue.k = "list"
  /\ \E n \in 1..Len(mv.sampledValue.list) :
       LET sv == mv.sampledValue.list[n]
       IN /\ sv.k = "sv" /\ IsVolts(sv.measurand)
          /\ AcceptSample(normPhase(IF sv.phase # Absent THEN sv.phase
                                    ELSE Some(MeasurandTail(sv.measurand))),
                          sv.value)

\* C17: in a log whose transaction ids are each reported on one connector,
\* the triplet of every accepted sample of a meter message that carries a
\* transaction id is finalized 'session', whatever other spans the connector has.
C17_MeterDataEstablishesSession ==
  parsePc = "parsed" /\ ~parsed.threw /\ OneConnectorPerTx(fileText) =>
    \A r \in EntryRefs(fileText) :
      LET e == fileText[r[1]]
          mv == EntryAt(fileText, r)
      IN e.obj.o.transactionId # Absent /\ HasAcceptedSample(mv, now) =>
           \A k \in 1..Len(parsed.triplets) :
             LET t == parsed.triplets[k]
             IN t.connectorId = ConnOfEntry(e)
                /\ t.ts = RoundToSecond(Val(parseISO(mv.timestamp)))
                => t.session = "session"


\* --- the cursor loops over the occurrences of a marker (lines 308-317, 492-549)
\* a text is a sequence of one-character strings, offsets counted from 0
BootNotification == <<"B", "o", "o", "t", "N", "o", "t", "i", "f", "i", "c", "a", "t", "i", "o", "n">>
GetConfiguration == <<"G", "e", "t", "C", "o", "n", "f", "i", "g", "u", "r", "a", "t", "i", "o", "n">>
DataTransfer == <<"D", "a", "t", "a", "T", "r", "a", "n", "s", "f", "e", "r">>
StatusNotification == <<"S", "t", "a", "t", "u", "s", "N", "o", "t", "i", "f", "i", "c", "a", "t", "i", "o", "n">>
StartTransaction == <<"S", "t", "a", "r", "t", "T", "r", "a", "n", "s", "a", "c", "t", "i", "o", "n">>
StopTransaction == <<"S", "t", "o", "p", "T", "r", "a", "n", "s", "a", "c", "t", "i", "o", "n">>
MeterValues == <<"M", "e", "t", "e", "r", "V", "a", "l", "u", "e", "s">>
\* the markers handed to scan() (lines 319, 341, 383, 428, 442, 455)
ScanMarkers ==
  {BootNotification, GetConfiguration, DataTransfer, StatusNotification,
   StartTransaction, StopTransaction}

OccursAt(txt, mk, p) ==
  p >= 0 /\ p + Len(mk) <= Len(txt) /\ SubSeq(txt, p + 1, p + Len(mk)) = mk
\* text.indexOf(marker, from): the first occurrence at or after from, -1 when none
IndexOfMarker(txt, mk, from) ==
  IF \E p \in from..Len(txt) : OccursAt(txt, mk, p)
  THEN CHOOSE p \in from..Len(txt) :
         OccursAt(txt, mk, p) /\ \A q \in from..(p - 1) : ~OccursAt(txt, mk, q)
  ELSE -1

\* texts: up to MaxPieces pieces, each the marker, a blank or an empty object
MaxPieces == 3
Pieces(mk) == {mk, <<" ">>, <<"{", "}">>}
RECURSIVE Flatten(_)
Flatten(ps) == IF ps = <<>> THEN <<>> ELSE Head(ps) \o Flatten(Tail(ps))
ScanTexts(mk) == {Flatten(ps) : ps \in UNION {[1..n -> Pieces(mk)] : n \in 0..MaxPieces}}

InitScanLoops ==
  /\ scMarker \in ScanMarkers \cup {MeterValues}
  /\ scText \in ScanTexts(scMarker)
  /\ scJ = 0 /\ scVisited = <<>>
  /\ scPc = IF scMarker = MeterValues THEN "meter" ELSE "scan"
  /\ EvIdle /\ XIdle /\ AppIdle /\ ParseIdle /\ MetaIdle /\ BatchIdle

\* one turn of `while (true)` in scan (lines 310-316): extractJsonFrom is run
\* from p, then j = p + marker.length
ScanTurn ==
  /\ scPc = "scan"
  /\ LET p == IndexOfMarker(scText, scMarker, scJ)
     IN IF p < 0
        THEN scPc' = "done" /\ UNCHANGED <<scJ, scVisited>>
        ELSE /\ scVisited' = Append(scVisited, p)
             /\ scJ' = p + Len(scMarker)
             /\ UNCHANGED scPc
  /\ UNCHANGED <<scText, scMarker, evVars, xVars, appVars, parseVars, metaVars, batchVars>>

\* idx = pos + 12 (line 549)
METER_ADVANCE == 12

\* one turn of the MeterValues loop (lines 492-549)
MeterTurn ==
  /\ scPc = "meter"
  /\ LET pos == IndexOfMarker(scText, MeterValues, scJ)
     IN IF pos < 0
        THEN scPc' = "done" /\ UNCHANGED <<scJ, scVisited>>
        ELSE /\ scVisited' = Append(scVisited, pos)
             /\ scJ' = pos + METER_ADVANCE
             /\ UNCHANGED scPc
  /\ UNCHANGED <<scText, scMarker, evVars, xVars, appVars, parseVars, metaVars, batchVars>>

NextScanLoops == ScanTurn \/ MeterTurn
SpecScanLoops == InitScanLoops /\ [][NextScanLoops]_vars

Occurrences(txt, mk) == {p \in 0..(Len(txt) - 1) : OccursAt(txt, mk, p)}

\* C18: when a loop over a marker has ended, the offsets it handed to the
\* extractor are the occurrences of the marker in the text, each once, in
\* text order.
C18_EveryOccurrenceVisited ==
  scPc = "done" =>
    /\ {scVisited[k] : k \in 1..Len(scVisited)} = Occurrences(scText, scMarker)
    /\ \A k \in 1..(Len(scVisited) - 1) : scVisited[k] < scVisited[k + 1]


\* --- logs with marker occurrences that have no JSON object of their own
DispatchEntries ==
  { [m |-> "StatusNotification", obj |-> NoObj],
    [m |-> "MeterValues", obj |-> NoObj],
    StatusEvent(Some(1), TsStr(1000), Some("Charging"), Some("NoError")),
    Meter1(Some(1), Absent, TsStr(2400), "Voltage.L1", Absent, 231),
    StartAt(Some(1), 1, TsStr(2000), Absent) }

InitDispatch == InitParse(DispatchEntries)
SpecDispatch == InitDispatch /\ [][NextParse]_vars

\* the occurrences of a marker that have an object of their own
OwnObjects(log, marker) == {q \in 1..Len(log) : log[q].m = marker /\ log[q].obj.k = "obj"}
\* the status events recorded by a run, over all connectors
RecordedEvents(o) ==
  UNION {{<<c, k>> : k \in 1..Len(o.timeline[c])} : c \in ConnIds}

\* C19: an object is handled once, by the handler of the marker occurrence
\* before it: in these logs, where every object of a connector-status message
\* gives one status event and every object of a meter-reading message one
\* point, there are as many events as connector-status objects and as many
\* points as meter-reading objects; an occurrence with no object of its own
\* adds nothing.
C19_ObjectHandledOnce ==
  parsePc = "parsed" /\ ~parsed.threw =>
    /\ Cardinality(RecordedEvents(parsed))
         = Cardinality(OwnObjects(fileText, "StatusNotification"))
    /\ Len(parsed.points) = Cardinality(OwnObjects(fileText, "MeterValues"))


\* --- logs with several observations of a transaction
SpanEntries ==
  { StartAt(Some(1), 1, TsStr(T0), Some("TAG")),
    StopAt(Absent, 1, TsStr(T0 + SpanLength)),
    Meter(Some(1), Some(1), <<MvEntry(TsStr(T0 - 30000), GoodSv),
                              MvEntry(TsStr(NearFuture), GoodSv)>>),
    Meter1(Some(2), Some(2), TsStr(T0 + 1000), "Voltage.L1", Absent, 229),
    StartAt(Some(2), 2, TsNone, Absent),
    [m |-> "StopTransaction", obj |-> NoObj] }

InitSpans == InitParse(SpanEntries)
SpecSpans == InitSpans /\ [][NextParse]_vars

\* the times of the observations a run at clock t records for transaction tx:
\* the timestamp of each object handed to the session-start and session-stop
\* handlers, and of each accepted entry of a meter message, that carries tx
Observations(log, t, tx) ==
  LET carrying(marker) ==
        {q \in 1..Len(log) :
           /\ log[q].m = marker /\ ExtractAt(log, q) # Absent
           /\ Val(ExtractAt(log, q)).transactionId = Some(tx)}
      startStop ==
        {parseISO(Val(ExtractAt(log, q)).timestamp) :
           q \in carrying("StartTransaction") \cup carrying("StopTransaction")}
           \ {Absent}
      accepted(q) ==
        LET l == Val(ExtractAt(log, q)).meterValue.list
        IN {x \in {l[n] : n \in 1..Len(l)} :
              /\ x.k = "entry" /\ ~Unparseable(x.timestamp)
              /\ ~OutOfWindow(x.timestamp, t)}
      meters ==
        UNION {{parseISO(mv.timestamp) : mv \in accepted(q)} :
               q \in carrying("MeterValues")}
  IN {Val(x) : x \in startStop \cup meters}
\* the spans of a run, as <<connector, index>>
SpansOf(o, tx) ==
  UNION {{<<c, k>> : k \in {n \in 1..Len(o.spans[c]) : o.spans[c][n].tx = tx}} : c \in ConnIds}
ObservedTimes == {T0 - 30000, T0, T0 + 1000, T0 + SpanLength, NearFuture}

\* C20: after the scans a transaction with observations has exactly one span,
\* from the earliest to the latest of their times, and one without has none;
\* startTs <= endTs, and one more observation never narrows a span.
C20_SpanWidening ==
  parsePc = "parsed" /\ ~parsed.threw =>
    \A tx \in TxIds :
      LET obs == Observations(fileText, now, tx)
          sps == SpansOf(parsed, tx)
      IN /\ obs = {} => sps = {}
         /\ obs # {} =>
              /\ Cardinality(sps) = 1
              /\ \A ck \in sps :
                   LET sp == parsed.spans[ck[1]][ck[2]]
                   IN /\ sp.startTs = SetMin(obs) /\ sp.endTs = SetMax(obs)
                      /\ sp.startTs <= sp.endTs
                      /\ \A ts \in ObservedTimes :
                           LET ctx == [EmptyCtx EXCEPT !.txSpansByTx[tx] = Some(sp)]
                               w == Val(Widen(ctx, tx, sp.connectorId, ts, Absent).txSpansByTx[tx])
                           IN /\ w.startTs <= sp.startTs /\ sp.endTs <= w.endTs
                              /\ w.startTs <= ts /\ ts <= w.endTs

\* transaction 1 seen by a session-start at T0, a session-stop ten minutes
\* later and a meter entry 30 s before T0 (its other entry is out of the
\* window): one span from T0 - 30000 to T0 + 600000
C20_Witness ==
  /\ parsePc = "parsed" /\ ~parsed.threw
  /\ Observations(fileText, now, 1) = {T0 - 30000, T0, T0 + SpanLength}
  /\ Len(parsed.spans[1]) = 1
  /\ parsed.spans[1][1].tx = 1
  /\ parsed.spans[1][1].startTs = T0 - 30000
  /\ parsed.spans[1][1].endTs = T0 + SpanLength


\* --- logs whose observations of a transaction name connector 2 or none
ConnEntries ==
  { StartAt(Some(2), 1, TsStr(T0), Some("TAG")),
    StopAt(Absent, 1, TsStr(T0 + SpanLength)),
    StopAt(Some(2), 1, TsStr(T0 + SpanLength + 1000)),
    Meter1(Some(2), Some(1), TsStr(T0 + 1000), "Voltage.L1", Absent, 229),
    Meter1(Some(2), Absent, TsStr(T0 + 2000), "Voltage.L2", Absent, 230) }

InitConn == InitParse(ConnEntries)
SpecConn == InitConn /\ [][NextParse]_vars

\* the observations of transaction tx in the log that name a connector
NamingConnector(log, tx) ==
  {q \in 1..Len(log) :
     /\ log[q].obj.k = "obj"
     /\ log[q].obj.o.transactionId = Some(tx)
     /\ log[q].obj.o.connectorId # Absent}

\* C21: the span of a transaction is grouped under the connector named by the
\* latest of its observations that names one; an observation without
\* connectorId does not move it.
C21_ConnectorOfLatestObservation ==
  parsePc = "parsed" /\ ~parsed.threw =>
    \A tx \in TxIds :
      LET naming == NamingConnector(fileText, tx)
          last == CHOOSE q \in naming : \A r \in naming : r <= q
      IN naming # {} /\ SpansOf(parsed, tx) # {} =>
           \A ck \in SpansOf(parsed, tx) :
             ck[1] = Val(fileText[last].obj.o.connectorId)


\* --- logs of connector-status events with good and bad timestamps
StampEntries ==
  { StatusAt(Some(1), TsStr(1000), "Charging"),
    StatusAt(Some(2), TsStr(SEVEN_DAYS), "Available"),
    StatusAt(Some(1), TsStr(NearFuture), "Faulted"),
    StatusAt(Absent, TsStr(0 - 86400000), "Preparing"),
    StatusAt(Some(1), TsNum(NearFuture + 1000), "Finishing"),
    StatusAt(Some(1), TsHuge(BeyondDate), "Unavailable"),
    StatusAt(Some(1), TsJunk, "Faulted") }

InitStamps == InitParse(StampEntries)
SpecStamps == InitStamps /\ [][NextParse]_vars

\* the connector-status occurrences whose timestamp parses, outside or inside
\* the window of a run at clock t
StatusOutside(log, t) ==
  {q \in 1..Len(log) : log[q].m = "StatusNotification" /\ OutOfWindow(log[q].obj.o.timestamp, t)}
StatusInside(log, t) ==
  {q \in 1..Len(log) :
     /\ log[q].m = "StatusNotification"
     /\ ~Unparseable(log[q].obj.o.timestamp) /\ ~OutOfWindow(log[q].obj.o.timestamp, t)}
IsStatusIncident(x) == x.source = "StatusNotification" /\ x.prefix = "Suspicious timestamp"

\* C22: a connector-status event with a parseable timestamp outside the window
\* is left out of every timeline and gives exactly one 'Suspicious timestamp'
\* incident; the other status events are recorded.
C22_SuspiciousStatusSkipped ==
  parsePc = "parsed" =>
    /\ \A ck \in RecordedEvents(parsed) :
         /\ parsed.timeline[ck[1]][ck[2]].ts >= MIN_REASONABLE_TS
         /\ parsed.timeline[ck[1]][ck[2]].ts <= MAX_REASONABLE_TS(now)
    /\ Len(SelectSeq(parsed.parsingErrors, IsStatusIncident))
         = Cardinality(StatusOutside(fileText, now))
    /\ Cardinality(RecordedEvents(parsed)) = Cardinality(StatusInside(fileText, now))


(***************************************************************************)
(* Device metadata: bootInfo (src/index.tsx:129, 246-262, 319-410, 467-479) *)
(* A string is a sequence of one-character strings.                        *)
(***************************************************************************)
Digits == {"0", "1", "2", "3", "4", "5", "6", "7", "8", "9"}
AlphaNum == Digits \cup {"a", "b", "v", "A", "B"}
VersionChars == AlphaNum \cup {".", "_", "-"}

\* String.prototype.trim
Trim(str) ==
  LET solid == {k \in 1..Len(str) : str[k] # " "}
  IN IF solid = {} THEN <<>>
     ELSE SubSeq(str, SetMin(solid), SetMax(solid))

\* /^[A-Za-z0-9][A-Za-z0-9._\-]{1,60}$/.test(s) && /\d/.test(s) (lines 189-190)
looksLikeVersion(str) ==
  /\ Len(str) >= 2 /\ Len(str) <= 61
  /\ str[1] \in AlphaNum
  /\ \A k \in 2..Len(str) : str[k] \in VersionChars
  /\ \E k \in 1..Len(str) : str[k] \in Digits

\* mutant: the guard on a firmware version already set left out
maybeSetFirmware_Overwrite(info, cand) ==
  IF cand = Absent THEN info
  ELSE LET str == Trim(Val(cand))
       IN IF str = <<>> THEN info
          ELSE IF ~looksLikeVersion(str) THEN info
          ELSE [info EXCEPT !.firmwareVersion = str]

\* maybeSetFirmware (lines 246-253); an unset field and the empty string are <<>>
maybeSetFirmware(info, cand) ==
  IF info.firmwareVersion # <<>> THEN info
  ELSE IF cand = Absent THEN info
  ELSE LET str == Trim(Val(cand))
       IN IF str = <<>> THEN info
          ELSE IF ~looksLikeVersion(str) THEN info
          ELSE [info EXCEPT !.firmwareVersion = str]

\* maybeSetVendorModel (lines 255-262) on a payload with the fields vendor, model
maybeSetVendorModel(info, obj) ==
  LET v == IF obj.vendor # Absent /\ Val(obj.vendor) # <<>> /\ info.chargePointVendor = <<>>
           THEN [info EXCEPT !.chargePointVendor = Trim(Val(obj.vendor))]
           ELSE info
  IN IF obj.model # Absent /\ Val(obj.model) # <<>> /\ v.chargePointModel = <<>>
     THEN [v EXCEPT !.chargePointModel = Trim(Val(obj.model))]
     ELSE v

\* the BootNotification handler (lines 319-338): fw is the direct field, deepFw
\* the string found by deepFindString
BootHandler(info, obj) ==
  LET a == maybeSetVendorModel(info, obj)
      b == IF obj.fw # Absent /\ Val(obj.fw) # <<>> THEN maybeSetFirmware(a, obj.fw) ELSE a
  IN IF obj.deepFw # Absent /\ Val(obj.deepFw) # <<>> THEN maybeSetFirmware(b, obj.deepFw) ELSE b

\* the GetConfiguration handler (lines 341-381) on a list holding one version key:
\* maybeSetFirmware(String(val).trim())
ConfigHandler(info, obj) ==
  IF obj.fw = Absent THEN info
  ELSE IF info.firmwareVersion = <<>> THEN maybeSetFirmware(info, Some(Trim(Val(obj.fw))))
  ELSE info

\* the DataTransfer handler (lines 383-426), connector types left out
TransferHandler(info, obj) ==
  LET a == maybeSetVendorModel(info, obj)
  IN IF obj.deepFw # Absent /\ Val(obj.deepFw) # <<>> THEN maybeSetFirmware(a, obj.deepFw) ELSE a

MetaHandle(marker, info, obj) ==
  IF marker = "BootNotification" THEN BootHandler(info, obj)
  ELSE IF marker = "GetConfiguration" THEN ConfigHandler(info, obj)
  ELSE TransferHandler(info, obj)

\* the firmware fallback (lines 476-479); raw is what regexFind returns
FirmwareFallback(info, raw) ==
  IF info.firmwareVersion = <<>> /\ raw # Absent /\ Trim(Val(raw)) # <<>>
  THEN maybeSetFirmware(info, Some(Trim(Val(raw))))
  ELSE info

\* the order of the scans (lines 319, 341, 383), then the fallback
NextStage(st) ==
  IF st = "BootNotification" THEN "GetConfiguration"
  ELSE IF st = "GetConfiguration" THEN "DataTransfer"
  ELSE "fallback"

Ones(n) == [k \in 1..n |-> "1"]
MetaMsg(marker, vendor, model, fw, deepFw) ==
  [m |-> marker, vendor |-> vendor, model |-> model, fw |-> fw, deepFw |-> deepFw]
MetaMessages ==
  { MetaMsg("BootNotification", Some(<<"A">>), Some(<<"a">>), Some(<<"1", ".", "2">>), Absent),
    MetaMsg("BootNotification", Some(<<" ", "B", " ">>), Absent, Some(<<"a", "b">>), Some(<<"v", "2">>)),
    MetaMsg("BootNotification", Some(<<" ">>), Some(<<"b">>), Some(<<"7">>), Absent),
    MetaMsg("BootNotification", Absent, Absent, Some(Ones(62)), Some(<<".", "1">>)),
    MetaMsg("GetConfiguration", Some(<<"B">>), Absent, Some(<<" ", "2", "-", "b", " ">>), Absent),
    MetaMsg("GetConfiguration", Absent, Absent, Some(Ones(61)), Absent),
    MetaMsg("DataTransfer", Some(<<"B">>), Some(<<"b">>), Absent, Some(<<"v", "2">>)),
    MetaMsg("DataTransfer", Absent, Some(<<"a">>), Absent, Some(<<"1", " ", "2">>)) }
RawMatches == {Absent, Some(<<"9", "_", "9">>), Some(<<"b", "a">>)}
MaxMetaLen == 2

InitMeta ==
  /\ mdLog \in UNION {[1..n -> MetaMessages] : n \in 0..MaxMetaLen}
  /\ mdRaw \in RawMatches
  /\ bootInfo = NoBootInfo
  /\ mdStage = "BootNotification" /\ mdPos = 1
  /\ EvIdle /\ XIdle /\ AppIdle /\ ParseIdle /\ ScanIdle /\ BatchIdle

\* one turn of scan(marker, handler) for the three metadata markers: the handler
\* runs on the next message of the marker, or the scan ends and the next begins
MetaScanTurn ==
  /\ mdStage \in {"BootNotification", "GetConfiguration", "DataTransfer"}
  /\ LET hits == {q \in mdPos..Len(mdLog) : mdLog[q].m = mdStage}
     IN IF hits = {}
        THEN /\ mdStage' = NextStage(mdStage) /\ mdPos' = 1
             /\ UNCHANGED bootInfo
        ELSE /\ bootInfo' = MetaHandle(mdStage, bootInfo, mdLog[SetMin(hits)])
             /\ mdPos' = SetMin(hits) + 1
             /\ UNCHANGED mdStage
  /\ UNCHANGED <<mdLog, mdRaw, evVars, xVars, appVars, parseVars, scanVars, batchVars>>

\* the fallback on the raw text (lines 476-479)
MetaFallback ==
  /\ mdStage = "fallback"
  /\ bootInfo' = FirmwareFallback(bootInfo, mdRaw)
  /\ mdStage' = "done"
  /\ UNCHANGED <<mdLog, mdRaw, mdPos, evVars, xVars, appVars, parseVars, scanVars, batchVars>>

NextMeta == MetaScanTurn \/ MetaFallback
SpecMeta == InitMeta /\ [][NextMeta]_vars

\* the claim's shape of a version: starts alphanumeric, 2 to 61 long, has a digit
VersionShape(str) ==
  /\ Len(str) \in 2..61
  /\ str[1] \in AlphaNum
  /\ \E k \in 1..Len(str) : str[k] \in Digits
KeepsOnceSet ==
  /\ bootInfo.chargePointVendor # <<>> => bootInfo'.chargePointVendor = bootInfo.chargePointVendor
  /\ bootInfo.chargePointModel # <<>> => bootInfo'.chargePointModel = bootInfo.chargePointModel
  /\ bootInfo.firmwareVersion # <<>> => bootInfo'.firmwareVersion = bootInfo.firmwareVersion
  /\ bootInfo'.firmwareVersion # <<>> => VersionShape(bootInfo'.firmwareVersion)

\* C23: once chargePointVendor, chargePointModel or firmwareVersion is set, no
\* later message and not the raw-text fallback changes it, and firmwareVersion
\* is only ever set to a value of the version shape.
C23_FirstMatchWins == [][KeepsOnceSet]_vars

\* two messages with different valid versions and vendors were handled, and a
\* raw match was at hand: the first of each is the one kept
C23_Witness ==
  /\ mdStage = "done" /\ Len(mdLog) = 2
  /\ mdLog[1].m = "BootNotification" /\ mdLog[1].fw = Some(<<"1", ".", "2">>)
  /\ mdLog[2].m = "DataTransfer" /\ mdLog[2].deepFw = Some(<<"v", "2">>)
  /\ mdLog[2].vendor = Some(<<"B">>)
  /\ mdRaw = Some(<<"9", "_", "9">>)
  /\ bootInfo.firmwareVersion = <<"1", ".", "2">>
  /\ bootInfo.chargePointVendor = <<"A">>


\* the present values of phase ph over the aggregated triplets
PresentOf(data, ph) == {PhaseValue(data[k], ph) : k \in PhaseIndexes(data, ph)}

\* C24: for each phase, min and max are the smallest and the largest present
\* value over the aggregated triplets and avg is their sum over their number;
\* for a phase with no present value min, max and avg are all 0.
C24_PhaseStatsOverPresent ==
  appPc = "ready" =>
    \A ph \in {"L1", "L2", "L3"} :
      LET ps == analysisStats.phases[ph]
          vals == PresentOf(allData, ph)
      IN IF vals = {}
         THEN ps.min = 0 /\ ps.max = 0 /\ ps.avg = Ratio(0, 1)
         ELSE /\ ps.min = SetMin(vals) /\ ps.max = SetMax(vals)
              /\ ps.avg = Ratio(PhaseSum(allData, ph, 1, Len(allData)),
                                Cardinality(PhaseIndexes(allData, ph)))


\* the step removeFile(name) leaves no file and no aggregated triplet of that
\* name, and keeps the other files and their aggregated triplets as they were
RemovalDropsOnly(name) ==
  removeFile(name) =>
    /\ \A k \in 1..Len(allData') : allData'[k].dataset # name
    /\ \A k \in 1..Len(files') : files'[k].name # name
    /\ files' = SelectSeq(files, LAMBDA f : f.name # name)
    /\ allData' = SelectSeq(allData, LAMBDA t : t.dataset # name)
    /\ analysisStats'.cntInvalidDates = IncidentCount(files')

\* C25: after removeFile(name), whatever was uploaded before, no triplet of the
\* removed file is in the aggregated list, and every other file is still there
\* with its triplets and incidents unchanged.
C25_RemovalDropsOnly == [][\A name \in StatsNames : RemovalDropsOnly(name)]_vars

\* a file has just been removed and another one, with its triplets, is left
C25_Witness ==
  /\ appPc = "ready" /\ appLast = "removeFile"
  /\ Len(files) = 1 /\ Len(files[1].triplets) > 0
  /\ Len(allData) = Len(files[1].triplets)


\* --- logs of session-start and session-stop messages with any timestamp
WindowEntries ==
  { StartAt(Some(1), 1, TsStr(0 - 86400000), Some("TAG")),
    StopAt(Absent, 1, TsStr(NearFuture)),
    StartAt(Some(2), 2, TsHuge(BeyondDate), Absent),
    StopAt(Some(2), 2, TsStr(T0)),
    StartAt(Some(1), 2, TsJunk, Absent),
    StopAt(Some(1), 1, TsNone),
    Entry("StartTransaction", [BaseObj EXCEPT !.connectorId = Some(1), !.timestamp = TsStr(T0)]) }

InitWindow == InitParse(WindowEntries)
SpecWindow == InitWindow /\ [][NextParse]_vars

\* the session-start and session-stop messages of the log that carry
\* transaction tx and a timestamp that parses
Recorded(log, tx) ==
  {q \in 1..Len(log) :
     /\ log[q].m \in {"StartTransaction", "StopTransaction"}
     /\ log[q].obj.o.transactionId = Some(tx)
     /\ ~Unparseable(log[q].obj.o.timestamp)}

\* C26: a session-start or session-stop message with a transaction id and a
\* timestamp that parses widens the span of the transaction wherever the
\* timestamp lies; one without transaction id or without such a timestamp is
\* skipped; none of them gives an incident.
C26_NoWindowOnSessions ==
  parsePc = "parsed" =>
    /\ ~parsed.threw
    /\ parsed.parsingErrors = <<>>
    /\ \A tx \in TxIds :
         LET times == {Val(parseISO(fileText[q].obj.o.timestamp)) : q \in Recorded(fileText, tx)}
         IN IF times = {} THEN SpansOf(parsed, tx) = {}
            ELSE /\ Cardinality(SpansOf(parsed, tx)) = 1
                 /\ \A ck \in SpansOf(parsed, tx) :
                      /\ parsed.spans[ck[1]][ck[2]].startTs = SetMin(times)
                      /\ parsed.spans[ck[1]][ck[2]].endTs = SetMax(times)

\* the span of transaction 1 starts a day before 2015-01-01 and ends after
\* parse time + 7 days, and no incident was recorded
C26_Witness ==
  /\ parsePc = "parsed" /\ ~parsed.threw
  /\ parsed.parsingErrors = <<>>
  /\ Len(parsed.spans[1]) = 1
  /\ parsed.spans[1][1].startTs < MIN_REASONABLE_TS
  /\ parsed.spans[1][1].endTs > MAX_REASONABLE_TS(now)


\* --- the App with the data table and the timezone setting
\* res.sort((a, b) => b.ts - a.ts) (src/unnamed/part_001:40), a stable sort
SortByTsDescending(arr) ==
  LET a == AsSeq(arr)
      place == AsSeq([k \in 1..Len(a) |->
                 1 + Cardinality({q \in 1..Len(a) :
                                    a[q].ts > a[k].ts \/ (a[q].ts = a[k].ts /\ q < k)})])
  IN AsSeq([r \in 1..Len(a) |-> a[CHOOSE k \in 1..Len(a) : place[k] = r]])

\* DataTable.filteredData (src/unnamed/part_001:21-41) on data = allData with no
\* search text: with statusFilter 'all' res is the array received and sort()
\* reorders it in place; with another filter res is a new array
renderDataTable(statusFilter) ==
  /\ appPc = "ready"
  /\ allData' = IF statusFilter = "all" THEN SortByTsDescending(allData) ELSE allData
  /\ appLast' = "renderDataTable"
  /\ UNCHANGED <<files, settings, analysisStats, appPc, timezone, evVars, xVars, parseVars,
                 scanVars, metaVars, batchVars>>

Timezones == {"Europe/Kyiv", "UTC"}
\* setSettings with another timezone: settings is a new object with the same
\* vmin and vmax, so the allData memo is kept (line 734) and the analysisStats
\* memo is computed again from it (line 803)
setTimezone(tz) ==
  /\ appPc = "ready" /\ tz # timezone
  /\ timezone' = tz
  /\ analysisStats' = AnalysisStats(allData, files, settings)
  /\ appLast' = "setTimezone"
  /\ UNCHANGED <<files, settings, allData, appPc, evVars, xVars, parseVars, scanVars, metaVars, batchVars>>

TableNames == {"ok.log", "under1.log", "delta30.log", "dip2.log"}
NextTable ==
  \/ \E name \in TableNames : handleUpload(name)
  \/ \E name \in TableNames : removeFile(name)
  \/ \E st \in SettingsSet : setSettings(st)
  \/ \E tz \in Timezones : setTimezone(tz)
  \/ \E statusFilter \in {"all", "issue", "ok"} : renderDataTable(statusFilter)

SpecTable == InitApp /\ [][NextTable]_vars

\* the triplet timestamps of the enabled files
EnabledTimes ==
  UNION {{files[f].triplets[k].ts : k \in 1..Len(files[f].triplets)} :
           f \in {g \in 1..Len(files) : files[g].enabled}}

\* C27: after any uploads, removals, threshold and timezone changes and
\* renders of the data table, an AnalysisStats with at least one triplet has
\* startTime <= endTime and durationHours >= 0, startTime being the smallest
\* and endTime the largest triplet timestamp of the enabled files.
C27_TimeRangeOrdered ==
  appPc = "ready" /\ analysisStats.totalPoints > 0 =>
    /\ Val(analysisStats.startTime) <= Val(analysisStats.endTime)
    /\ analysisStats.durationHours[1] >= 0
    /\ Val(analysisStats.startTime) = SetMin(EnabledTimes)
    /\ Val(analysisStats.endTime) = SetMax(EnabledTimes)


\* the accepted samples of phase ph that fall in the second of triplet t
SamplesOf(o, t, ph) ==
  {n \in 1..Len(o.points) :
     /\ o.points[n].dataset = t.dataset /\ o.points[n].connectorId = t.connectorId
     /\ t.ts <= o.points[n].ts /\ o.points[n].ts < t.ts + 1000
     /\ o.points[n].phase = ph}
WellFormedTriplet(o, t) ==
  LET present == {ph \in {"L1", "L2", "L3"} : PhaseOf(t, ph) # Absent}
      vals == {Val(PhaseOf(t, ph)) : ph \in present}
  IN /\ present # {}
     /\ \A ph \in {"L1", "L2", "L3"} : PhaseOf(t, ph) = Absent <=> SamplesOf(o, t, ph) = {}
     /\ \A ph \in present : \E n \in SamplesOf(o, t, ph) : o.points[n].voltage = Val(PhaseOf(t, ph))
     /\ t.ts % 1000 = 0
     /\ t.id = <<t.dataset, t.connectorId, t.ts>>
     /\ t.delta = IF Cardinality(present) >= 2 THEN SetMax(vals) - SetMin(vals) ELSE 0
     /\ t.delta >= 0

\* C28: every triplet returned has a phase present, has null for a phase not
\* sampled in its second, a ts that is a multiple of 1000, the id
\* dataset|connectorId|ts and the delta of its present values (0 for a single
\* one); the list is in ascending order of ts.
C28_TripletsWellFormed ==
  parsePc = "parsed" /\ ~parsed.threw =>
    /\ \A k \in 1..Len(parsed.triplets) : WellFormedTriplet(parsed, parsed.triplets[k])
    /\ \A k \in 1..(Len(parsed.triplets) - 1) : parsed.triplets[k].ts <= parsed.triplets[k + 1].ts

\* two triplets in ascending order from messages given in another order, the
\* first with two phases and their difference as delta, the second with one
C28_Witness ==
  /\ parsePc = "parsed" /\ ~parsed.threw
  /\ Len(fileText) = 3 /\ fileText[1].obj.k = "obj"
  /\ fileText[1].obj.o.meterValue.list[1].timestamp = TsNum(2000)
  /\ Len(parsed.triplets) = 2
  /\ parsed.triplets[1].ts = 1000 /\ parsed.triplets[2].ts = 2000
  /\ parsed.triplets[1].L1 = Some(229) /\ parsed.triplets[1].L2 = Some(231)
  /\ parsed.triplets[1].L3 = Absent /\ parsed.triplets[1].delta = 2
  /\ parsed.triplets[2].L3 = Some(232) /\ parsed.triplets[2].L1 = Absent
  /\ parsed.triplets[2].delta = 0


\* the span of index k holds time ts with the 60-second tolerance
HoldsWithTolerance(sp, ts) == ts + 60000 >= sp.startTs /\ ts <= sp.endTs + 60000
SoundLink(o, t) ==
  LET spans == o.spans[t.connectorId]
  IN /\ t.sessionId # Absent <=> t.session = "session"
     /\ t.session = "idle" => t.idTag = Absent
     /\ t.session = "session" =>
          \E k \in 1..Len(spans) :
            /\ spans[k].tx = Val(t.sessionId)
            /\ HoldsWithTolerance(spans[k], t.ts)
            /\ \A q \in (k + 1)..Len(spans) : ~HoldsWithTolerance(spans[q], t.ts)
            /\ t.idTag # Absent => spans[k].idTag = t.idTag

\* C29: a returned triplet has a sessionId exactly when its session is
\* 'session'; the id is then that of a span of the triplet's connector that
\* holds the triplet's time with the 60-second tolerance, the last such span
\* in start order; idTag is present only if that span has one.
C29_SessionLinkSound ==
  parsePc = "parsed" /\ ~parsed.threw =>
    \A k \in 1..Len(parsed.triplets) : SoundLink(parsed, parsed.triplets[k])

\* connector 1 has the spans of transactions 1 (with idTag) and 2; the triplet
\* 60 s before the start of the first is linked to it and takes its idTag, the
\* triplet of the second is linked to the second and has no idTag
C29_Witness ==
  /\ parsePc = "parsed" /\ ~parsed.threw
  /\ Len(parsed.spans[1]) = 2
  /\ parsed.spans[1][1].tx = 1 /\ parsed.spans[1][1].idTag = Some("TAG")
  /\ parsed.spans[1][2].tx = 2 /\ parsed.spans[1][2].idTag = Absent
  /\ Len(parsed.triplets) = 2
  /\ parsed.triplets[1].ts = T0 - 60000 /\ parsed.triplets[1].sessionId = Some(1)
  /\ parsed.triplets[1].idTag = Some("TAG")
  /\ parsed.triplets[2].sessionId = Some(2) /\ parsed.triplets[2].idTag = Absent


(***************************************************************************)
(* handleUpload as it runs (src/index.tsx:700-717): the call sets          *)
(* isLoading and starts a timer; the callback parses the files one by one, *)
(* giving way at each await, and ends by setFiles or by the catch.         *)
(***************************************************************************)
\* the batches a user drops; bad.log ends its parse by an exception
UploadBatches ==
  { <<"ok.log">>, <<"dip2.log">>, <<"ok.log", "dip2.log">>, <<"dip2.log", "ok.log">>,
    <<"ok.log", "bad.log">>, <<"bad.log", "dip2.log">>, <<"bad.log">> }

RECURSIVE InFlight(_)
InFlight(ps) == IF ps = <<>> THEN 0 ELSE Len(Head(ps).names) + InFlight(Tail(ps))

\* mutant: the list replaced by the results of the batch
AppendBatch_Replace(prev, results) == results

\* setFiles(prev => [...prev, ...results]) (line 709)
AppendBatch(prev, results) == prev \o results

\* handleUpload(uploadedFiles) up to the timer (lines 700-702); the callback keeps
\* the settings of the render that made it
startUpload(names) ==
  /\ appPc = "ready"
  /\ Len(files) + InFlight(pending) + Len(names) <= MaxFiles
  /\ pending' = Append(pending, [names |-> names, st |-> settings, results |-> <<>>])
  /\ isLoading' = TRUE
  /\ UNCHANGED <<appVars, evVars, xVars, parseVars, scanVars, metaVars>>

\* the batch of index b leaves the pending ones
Drop(ps, b) == SubSeq(ps, 1, b - 1) \o SubSeq(ps, b + 1, Len(ps))

\* one turn of `for (const f of uploadedFiles)` (lines 705-708) in batch b: the
\* parse returns and its result is pushed, or it throws and the catch and the
\* finally end the callback (lines 710-715)
parseNextFile(b) ==
  /\ appPc = "ready" /\ b \in 1..Len(pending)
  /\ Len(pending[b].results) < Len(pending[b].names)
  /\ LET data == ParsedUnder[pending[b].st][pending[b].names[Len(pending[b].results) + 1]]
     IN IF data.threw
        THEN pending' = Drop(pending, b) /\ isLoading' = FALSE
        ELSE /\ pending' = [pending EXCEPT ![b].results = Append(@, FileDataOf(data))]
             /\ UNCHANGED isLoading
  /\ UNCHANGED <<appVars, evVars, xVars, parseVars, scanVars, metaVars>>

\* the end of the callback of batch b when every file parsed: setFiles
\* (line 709), then the finally (lines 713-715)
finishUpload(b) ==
  /\ appPc = "ready" /\ b \in 1..Len(pending)
  /\ Len(pending[b].results) = Len(pending[b].names)
  /\ files' = AppendBatch(files, pending[b].results)
  /\ Memos(files', settings)
  /\ appLast' = "handleUpload"
  /\ pending' = Drop(pending, b)
  /\ isLoading' = FALSE
  /\ UNCHANGED <<settings, appPc, timezone, evVars, xVars, parseVars, scanVars, metaVars>>

\* removeFile while uploads are under way
removeListed(name) == removeFile(name) /\ UNCHANGED batchVars

NextBatch ==
  \/ \E names \in UploadBatches : startUpload(names)
  \/ \E b \in 1..MaxFiles : parseNextFile(b)
  \/ \E b \in 1..MaxFiles : finishUpload(b)
  \/ \E name \in StatsNames : removeListed(name)

SpecBatch == InitApp /\ [][NextBatch]_vars

\* what a batch gives when each of its files parses, in input order
ResultsOf(batch) ==
  [n \in 1..Len(batch.names) |-> FileDataOf(ParsedUnder[batch.st][batch.names[n]])]
AllParse(batch) == \A n \in 1..Len(batch.names) : ~ParsedUnder[batch.st][batch.names[n]].threw

\* a step that ends a batch either appends all of its files, in input order,
\* after the files of the list, or appends nothing; it clears isLoading; no
\* other step lengthens the list
BatchEndsWhole ==
  /\ Len(pending') < Len(pending) =>
       /\ isLoading' = FALSE
       /\ \E b \in 1..Len(pending) :
            /\ pending' = Drop(pending, b)
            /\ IF AllParse(pending[b])
               THEN files' = files \o ResultsOf(pending[b])
               ELSE files' = files
  /\ Len(files') > Len(files) => Len(pending') < Len(pending)

\* C30: in any interleaving of uploads and removals, a batch whose files all
\* parse is appended whole and in input order after the files already listed,
\* a batch with a file whose parse throws adds none of its files, and
\* isLoading is false after the batch ended either way.
C30_BatchesAtomic == [][BatchEndsWhole]_vars

\* a first batch was appended while a second one, already parsed, is still
\* under way: the list holds the first batch and isLoading is false
C30_Witness ==
  /\ appLast = "handleUpload" /\ isLoading = FALSE
  /\ Len(files) = 1 /\ files[1].name = "ok.log"
  /\ Len(pending) = 1 /\ pending[1].names = <<"dip2.log">>
  /\ Len(pending[1].results) = 1

====
